---- MODULE Spec2Model ----
(***************************************************************************)
(* Model of the microcosm models package: the scoped cache, the per-entity *)
(* fetchers, the fan-out/gather of GetProfiles and GetIgnored, the event   *)
(* and profile mutations with their purges, and the dedup token of         *)
(* EventType.Insert.                                                       *)
(***************************************************************************)
EXTENDS Integers, Sequences, FiniteSets, TLC

VARIABLES
    now,        \* wall clock, in seconds
    cacheUp,    \* the cache backing service is reachable
    cache,      \* key -> entry held by the cache backing service
    hist,       \* key -> the last set/purge applied to the key (history)
    profiles,   \* profiles table: profile_id -> row
    events,     \* events table: sequence of rows, event_id = index
    th,         \* request threads: one frame per thread
    call,       \* the list request (GetProfiles / GetIgnored) in flight
    units       \* the goroutines spawned by the list request, by Seq

vars == <<now, cacheUp, cache, hist, profiles, events, th, call, units>>

----------------------------------------------------------------------------
(* Bounds of the model *)

NSites == 2
NProfiles == 3
MaxRows == 2
MaxLimit == 2
MaxOffsetArg == 2
MaxTicks == 3
TickSecs == 200
MaxEvents == 2
MaxName == 1
MaxCount == 1

Sites == 1..NSites
Threads == {"t1", "t2"}
ProfIds == 1..NProfiles

\* the goroutine a request leaves behind (go PurgeCache)
Goroutines == {"go"}

\* the profile_id the sequence hands to the next INSERT INTO profiles
NewProfileId == NProfiles + 1

----------------------------------------------------------------------------
(* Program constants *)

StatusOK == 200
StatusBadRequest == 400
StatusNotFound == 404
StatusInternalServerError == 500

ItemTypeMicrocosm == 2
ItemTypeProfile == 3
ItemTypeEvent == 9

mcTtl == 500
DupeTtl == 60 * 5

Nil == "nil"

----------------------------------------------------------------------------
(* The cache package *)

Scopes == {"CacheDetail", "CacheSummary", "CacheCounts", "CacheProfileIds"}

\* fmt.Sprintf(mcProfileKeys[scope], id), fmt.Sprintf(mcEventKeys[scope], id)
mcKey(kind, scope, id) == <<kind, scope, id>>

NoEntry == [typ |-> "none", val |-> Nil, exp |-> 0]

Miss == [ok |-> FALSE, val |-> Nil]

\* typed get: a miss when the service is unreachable, the key is absent or
\* expired, or the stored value is not of the requested type
\* entries are served while the service is unreachable
CacheGet_Stale(ca, t, up, key, typ) ==
    IF key \notin DOMAIN ca THEN Miss
    ELSE IF ca[key].typ = "none" \/ t >= ca[key].exp THEN Miss
    ELSE IF ca[key].typ # typ THEN Miss
    ELSE [ok |-> TRUE, val |-> ca[key].val]

\* entries are served whatever their age
CacheGet_NoExpiry(ca, t, up, key, typ) ==
    IF ~up \/ key \notin DOMAIN ca THEN Miss
    ELSE IF ca[key].typ = "none" THEN Miss
    ELSE IF ca[key].typ # typ THEN Miss
    ELSE [ok |-> TRUE, val |-> ca[key].val]

CacheGet(ca, t, up, key, typ) ==
    IF ~up \/ key \notin DOMAIN ca THEN Miss
    ELSE IF ca[key].typ = "none" \/ t >= ca[key].exp THEN Miss
    ELSE IF ca[key].typ # typ THEN Miss
    ELSE [ok |-> TRUE, val |-> ca[key].val]

CacheGetInt64(ca, t, up, key) == CacheGet(ca, t, up, key, "int64")

\* cache operations issued by a step, applied in order
SetOp(key, typ, val, ttl) ==
    [op |-> "set", keys |-> {key}, typ |-> typ, val |-> val, ttl |-> ttl]

\* only the Detail entry is removed
PurgeCache_DetailOnly(kind, id) ==
    [op |-> "purge", keys |-> {mcKey(kind, "CacheDetail", id)},
     typ |-> "none", val |-> Nil, ttl |-> 0]

PurgeCache(kind, id) ==
    [op |-> "purge", keys |-> {mcKey(kind, s, id) : s \in Scopes},
     typ |-> "none", val |-> Nil, ttl |-> 0]

\* every scope of the item removed
PurgeCacheByScope_AllScopes(scope, kind, id) ==
    [op |-> "purge", keys |-> {mcKey(kind, s, id) : s \in Scopes},
     typ |-> "none", val |-> Nil, ttl |-> 0]

PurgeCacheByScope(scope, kind, id) ==
    [op |-> "purge", keys |-> {mcKey(kind, scope, id)},
     typ |-> "none", val |-> Nil, ttl |-> 0]

\* an entry already stored is kept
CacheSet_KeepOld(ca, t, up, o) ==
    IF ~up THEN ca
    ELSE [k \in DOMAIN ca |->
            IF k \in o.keys /\ ca[k].typ = "none"
            THEN [typ |-> o.typ, val |-> o.val, exp |-> t + o.ttl]
            ELSE ca[k]]

CacheSet(ca, t, up, o) ==
    IF ~up THEN ca
    ELSE [k \in DOMAIN ca |->
            IF k \in o.keys
            THEN [typ |-> o.typ, val |-> o.val, exp |-> t + o.ttl]
            ELSE ca[k]]

CacheDelete(ca, up, o) ==
    IF ~up THEN ca
    ELSE [k \in DOMAIN ca |-> IF k \in o.keys THEN NoEntry ELSE ca[k]]

ApplyOp(ca, t, up, o) ==
    IF o.op = "set" THEN CacheSet(ca, t, up, o) ELSE CacheDelete(ca, up, o)

RECURSIVE ApplyOps(_, _, _, _)
ApplyOps(ca, t, up, ops) ==
    IF ops = <<>> THEN ca
    ELSE ApplyOps(ApplyOp(ca, t, up, Head(ops)), t, up, Tail(ops))

\* history of the requests made to the cache: per key, the last set (with
\* its value and deadline) or the last purge (with the deadline of the
\* entry it removed)
HistNone == [op |-> "none", val |-> Nil, exp |-> 0]

HistOp(h, ca, t, o) ==
    [k \in DOMAIN h |->
        IF k \notin o.keys THEN h[k]
        ELSE IF o.op = "set"
             THEN [op |-> "set", val |-> [typ |-> o.typ, val |-> o.val],
                   exp |-> t + o.ttl]
             ELSE [op |-> "purge", val |-> Nil,
                   exp |-> IF ca[k].typ # "none" THEN ca[k].exp ELSE 0]]

RECURSIVE HistOps(_, _, _, _, _)
HistOps(h, ca, t, up, ops) ==
    IF ops = <<>> THEN h
    ELSE HistOps(HistOp(h, ca, t, Head(ops)),
                 ApplyOp(ca, t, up, Head(ops)), t, up, Tail(ops))

----------------------------------------------------------------------------
(* Stack frame of one running operation *)

NoRecord == [typ |-> "zero"]

NoTx == [state |-> "none", writes |-> <<>>]

\* sub holds the frame of the call the operation is waiting for, if any
Frame(op, siteId, id, profileId, arg) ==
    [op |-> op, pc |-> "start", siteId |-> siteId, id |-> id,
     profileId |-> profileId, arg |-> arg, m |-> NoRecord,
     status |-> 0, err |-> Nil, tx |-> NoTx, sub |-> <<>>]

IdleFrame == [Frame("none", 0, 0, 0, Nil) EXCEPT !.pc = "idle"]

\* the call pending in the frame has returned
Looked(f) == [f EXCEPT !.sub = <<>>]

Return(f, m, status, err) ==
    [f EXCEPT !.pc = "ret", !.m = m, !.status = status, !.err = err]

\* outcomes of one round trip to the data store
DbOutcomes == {"ok", "connfail", "queryfail"}

ConnErr == "connection failed"

\* the error of IncrementMicrocosmItemCount, DecrementMicrocosmItemCount
CountErr == "Update of microcosm item count failed"

\* one step of an operation: the next frame, the cache operations issued,
\* the data store after the step
Result(f, ops, db) == [f |-> f, ops |-> ops, db |-> db]

----------------------------------------------------------------------------
(* GetProfileSummary *)

ProfileSummaryType(id, row) ==
    [typ |-> "ProfileSummaryType", id |-> id, siteId |-> row.site,
     name |-> row.name]

\* SELECT ... FROM profiles WHERE site_id = $1 AND profile_id = $2
ProfileRowVisible(db, siteId, id) ==
    id \in DOMAIN db.profiles /\ db.profiles[id].site = siteId

\* the cache write left out
GetProfileSummaryCacheSet_None(f) == <<>>

\* the summary written under the key of the Detail scope
GetProfileSummaryCacheSet_Detail(f) ==
    <<SetOp(mcKey(ItemTypeProfile, "CacheDetail", f.id),
            "ProfileSummaryType", f.m, mcTtl)>>

\* the entry written with no time to live
GetProfileSummaryCacheSet_Expired(f) ==
    <<SetOp(mcKey(ItemTypeProfile, "CacheSummary", f.id),
            "ProfileSummaryType", f.m, 0)>>

GetProfileSummaryCacheSet(f) ==
    <<SetOp(mcKey(ItemTypeProfile, "CacheSummary", f.id),
            "ProfileSummaryType", f.m, mcTtl)>>

\* one step of GetProfileSummary: the cache lookup, the query, the cache
\* write; the result is the next frame and the cache operations issued
GetProfileSummary(f, ca, t, up, db, outcome) ==
    IF f.pc = "start" THEN
        IF f.id = 0
        THEN [f |-> Return(f, NoRecord, StatusNotFound, "Profile not found"),
              ops |-> <<>>]
        ELSE LET hit == CacheGet(ca, t, up,
                                 mcKey(ItemTypeProfile, "CacheSummary", f.id),
                                 "ProfileSummaryType")
             IN  IF hit.ok
                 THEN IF hit.val.siteId # f.siteId
                      THEN [f |-> Return(f, NoRecord, StatusNotFound,
                                         "Not found"),
                            ops |-> <<>>]
                      ELSE [f |-> Return(f, hit.val, StatusOK, Nil),
                            ops |-> <<>>]
                 ELSE [f |-> [f EXCEPT !.pc = "query"], ops |-> <<>>]
    ELSE IF f.pc = "query" THEN
        IF outcome = "connfail"
        THEN [f |-> Return(f, NoRecord, StatusInternalServerError, ConnErr),
              ops |-> <<>>]
        ELSE IF outcome = "queryfail"
        THEN [f |-> Return(f, NoRecord, StatusInternalServerError,
                           "Database query failed"),
              ops |-> <<>>]
        ELSE IF ~ProfileRowVisible(db, f.siteId, f.id)
        THEN [f |-> Return(f, NoRecord, StatusNotFound,
                           "Resource with profile ID not found"),
              ops |-> <<>>]
        ELSE [f |-> [f EXCEPT !.pc = "set",
                              !.m = ProfileSummaryType(f.id,
                                                        db.profiles[f.id])],
              ops |-> <<>>]
    ELSE \* f.pc = "set"
        [f |-> Return(f, f.m, StatusOK, Nil),
         ops |-> GetProfileSummaryCacheSet(f)]

----------------------------------------------------------------------------
(* GetProfile, GetUnreadHuddleCount *)

ProfileType(id, row) ==
    [typ |-> "ProfileType", id |-> id, siteId |-> row.site,
     name |-> row.name, commentCount |-> row.commentCount,
     lastActive |-> row.lastActive]

\* a missing row remembered in the cache as a zero-value record
GetProfile_Negative(f, ca, t, up, db, outcome) ==
    IF f.pc = "start" THEN
        IF f.id = 0
        THEN [f |-> Return(f, NoRecord, StatusNotFound, "Profile not found"),
              ops |-> <<>>]
        ELSE LET hit == CacheGet(ca, t, up,
                                 mcKey(ItemTypeProfile, "CacheDetail", f.id),
                                 "ProfileType")
             IN  IF hit.ok
                 THEN IF hit.val.siteId # f.siteId
                      THEN [f |-> Return(f, NoRecord, StatusNotFound,
                                         "Not found"),
                            ops |-> <<>>]
                      ELSE [f |-> Return(f, hit.val, StatusOK, Nil),
                            ops |-> <<>>]
                 ELSE [f |-> [f EXCEPT !.pc = "query"], ops |-> <<>>]
    ELSE IF f.pc = "query" THEN
        IF outcome = "connfail"
        THEN [f |-> Return(f, NoRecord, StatusInternalServerError, ConnErr),
              ops |-> <<>>]
        ELSE IF outcome = "queryfail"
        THEN [f |-> Return(f, NoRecord, StatusInternalServerError,
                           "Database query failed"),
              ops |-> <<>>]
        ELSE IF ~ProfileRowVisible(db, f.siteId, f.id)
        THEN [f |-> Return(f, NoRecord, StatusNotFound,
                           "Resource with profile ID not found"),
              ops |-> <<SetOp(mcKey(ItemTypeProfile, "CacheDetail", f.id),
                              "ProfileType", NoRecord, mcTtl)>>]
        ELSE [f |-> [f EXCEPT !.pc = "set",
                              !.m = ProfileType(f.id, db.profiles[f.id])],
              ops |-> <<>>]
    ELSE \* f.pc = "set"
        [f |-> Return(f, f.m, StatusOK, Nil),
         ops |-> <<SetOp(mcKey(ItemTypeProfile, "CacheDetail", f.id),
                         "ProfileType", f.m, mcTtl)>>]

\* one step of GetProfile
GetProfile(f, ca, t, up, db, outcome) ==
    IF f.pc = "start" THEN
        IF f.id = 0
        THEN [f |-> Return(f, NoRecord, StatusNotFound, "Profile not found"),
              ops |-> <<>>]
        ELSE LET hit == CacheGet(ca, t, up,
                                 mcKey(ItemTypeProfile, "CacheDetail", f.id),
                                 "ProfileType")
             IN  IF hit.ok
                 THEN IF hit.val.siteId # f.siteId
                      THEN [f |-> Return(f, NoRecord, StatusNotFound,
                                         "Not found"),
                            ops |-> <<>>]
                      ELSE [f |-> Return(f, hit.val, StatusOK, Nil),
                            ops |-> <<>>]
                 ELSE [f |-> [f EXCEPT !.pc = "query"], ops |-> <<>>]
    ELSE IF f.pc = "query" THEN
        IF outcome = "connfail"
        THEN [f |-> Return(f, NoRecord, StatusInternalServerError, ConnErr),
              ops |-> <<>>]
        ELSE IF outcome = "queryfail"
        THEN [f |-> Return(f, NoRecord, StatusInternalServerError,
                           "Database query failed"),
              ops |-> <<>>]
        ELSE IF ~ProfileRowVisible(db, f.siteId, f.id)
        THEN [f |-> Return(f, NoRecord, StatusNotFound,
                           "Resource with profile ID not found"),
              ops |-> <<>>]
        ELSE [f |-> [f EXCEPT !.pc = "set",
                              !.m = ProfileType(f.id, db.profiles[f.id])],
              ops |-> <<>>]
    ELSE \* f.pc = "set"
        [f |-> Return(f, f.m, StatusOK, Nil),
         ops |-> <<SetOp(mcKey(ItemTypeProfile, "CacheDetail", f.id),
                         "ProfileType", f.m, mcTtl)>>]

\* m.Meta.Stats with the unreadHuddles metric appended
StatType(i) == [typ |-> "StatType", unreadHuddles |-> i]

\* one step of ProfileType.GetUnreadHuddleCount
GetUnreadHuddleCount(f, ca, t, up, db, outcome) ==
    IF f.pc = "start" THEN
        LET hit == CacheGetInt64(ca, t, up,
                                 mcKey(ItemTypeProfile, "CacheCounts", f.id))
        IN  IF hit.ok
            THEN [f |-> Return(f, StatType(hit.val), StatusOK, Nil),
                  ops |-> <<>>]
            ELSE [f |-> [f EXCEPT !.pc = "query"], ops |-> <<>>]
    ELSE IF f.pc = "query" THEN
        IF outcome = "connfail"
        THEN [f |-> Return(f, NoRecord, StatusInternalServerError, ConnErr),
              ops |-> <<>>]
        ELSE IF outcome = "queryfail" \/ f.id \notin DOMAIN db.profiles
        THEN [f |-> Return(f, NoRecord, StatusInternalServerError,
                           "Error fetching row"),
              ops |-> <<>>]
        ELSE [f |-> [f EXCEPT !.pc = "set",
                              !.m = StatType(db.profiles[f.id].unread)],
              ops |-> <<>>]
    ELSE \* f.pc = "set"
        [f |-> Return(f, f.m, StatusOK, Nil),
         ops |-> <<SetOp(mcKey(ItemTypeProfile, "CacheCounts", f.id),
                         "int64", f.m.unreadHuddles, mcTtl)>>]

----------------------------------------------------------------------------
(* Events: rows, records, nested lookups *)

\* the microcosms of the installation and the site each belongs to
MicrocosmIds == {1, 11}

MicrocosmSite(mid) == IF mid = 1 THEN 1 ELSE 2

\* the attendees table (state_id = 1): profile 1 attends event 1
AttendeeIds(eventId) == IF eventId = 1 THEN <<1>> ELSE <<>>

\* flags.site_id of an event: the site of its microcosm
EventSite(row) == MicrocosmSite(row.microcosmId)

\* GetEvent: JOIN flags f ON f.site_id = $2 ... item_is_deleted IS NOT TRUE
\* AND item_is_moderated IS NOT TRUE
EventRowVisible(db, siteId, id) ==
    /\ id \in DOMAIN db.events
    /\ db.events[id].committed
    /\ EventSite(db.events[id]) = siteId
    /\ ~db.events[id].deleted
    /\ ~db.events[id].moderated

\* GetEventSummary: WHERE event_id = $1 AND is_deleted(9, event_id) IS FALSE
EventSummaryRowVisible(db, id) ==
    /\ id \in DOMAIN db.events
    /\ db.events[id].committed
    /\ ~db.events[id].deleted

EventRecord(typ, id, row) ==
    [typ |-> typ, id |-> id, microcosmId |-> row.microcosmId,
     title |-> row.title, duration |-> row.duration,
     createdById |-> row.createdById, editedById |-> row.editedById,
     sticky |-> row.sticky, open |-> row.open, deleted |-> row.deleted,
     moderated |-> row.moderated,
     createdBy |-> NoRecord, editedBy |-> NoRecord, attending |-> FALSE]

\* the call of GetProfileSummary(siteId, id) the operation of frame f is
\* making: a new call when none is in progress
Nested(f, id) ==
    IF f.sub = <<>> THEN Frame("GetProfileSummary", f.siteId, id, 0, Nil)
    ELSE f.sub[1]

\* one step of (m *EventType) FetchProfileSummaries(siteId): the lookup of
\* the creator at pc first, that of the editor (EditedByNullable.Valid) at
\* pc second; every step of a lookup is a step of its own of the caller
FetchProfileSummaries(f, ca, t, up, db, outcome, first, second, next) ==
    LET id == IF f.pc = first THEN f.m.createdById ELSE f.m.editedById
        r == GetProfileSummary(Nested(f, id), ca, t, up, db, outcome)
    IN  IF r.f.pc # "ret"
        THEN [f |-> [f EXCEPT !.sub = <<r.f>>], ops |-> r.ops]
        ELSE IF r.f.err # Nil
        THEN [f |-> Return(Looked(f), NoRecord, r.f.status, r.f.err),
              ops |-> r.ops]
        ELSE IF f.pc = first
        THEN [f |-> [Looked(f) EXCEPT
                        !.m.createdBy = r.f.m,
                        !.pc = IF f.m.editedById = 0 THEN next ELSE second],
              ops |-> r.ops]
        ELSE [f |-> [Looked(f) EXCEPT !.m.editedBy = r.f.m, !.pc = next],
              ops |-> r.ops]

\* one step of (m *EventSummaryType) FetchProfileSummaries(siteId); the
\* events of the model have no last comment
FetchProfileSummariesOfSummary(f, ca, t, up, db, outcome, next) ==
    LET r == GetProfileSummary(Nested(f, f.m.createdById), ca, t, up, db,
                               outcome)
    IN  IF r.f.pc # "ret"
        THEN [f |-> [f EXCEPT !.sub = <<r.f>>], ops |-> r.ops]
        ELSE IF r.f.err # Nil
        THEN [f |-> Return(Looked(f), NoRecord, r.f.status, r.f.err),
              ops |-> r.ops]
        ELSE [f |-> [Looked(f) EXCEPT !.m.createdBy = r.f.m, !.pc = next],
              ops |-> r.ops]

InSeq(x, q) == \E i \in 1..Len(q) : q[i] = x

\* the error db.Query hands back, passed on as it is
QueryErr == "query failed"

\* one step of IsAttending(profileId, eventId): the cache lookup, the query
\* of the attendees, the cache write; f.m is attendeeIds and then the result
IsAttending(f, ca, t, up, db, outcome) ==
    LET key == mcKey(ItemTypeEvent, "CacheProfileIds", f.id)
    IN  IF f.pc = "start" THEN
            IF f.profileId = 0 \/ f.id = 0
            THEN [f |-> Return(f, FALSE, 0, Nil), ops |-> <<>>]
            ELSE LET hit == CacheGet(ca, t, up, key, "int64slice")
                 IN  IF hit.ok
                     THEN [f |-> Return(f, InSeq(f.profileId, hit.val), 0,
                                        Nil),
                           ops |-> <<>>]
                     ELSE [f |-> [f EXCEPT !.pc = "query"], ops |-> <<>>]
        ELSE IF f.pc = "query" THEN
            IF outcome = "connfail"
            THEN [f |-> Return(f, FALSE, 0, ConnErr), ops |-> <<>>]
            ELSE IF outcome = "queryfail"
            THEN [f |-> Return(f, FALSE, 0, QueryErr), ops |-> <<>>]
            ELSE [f |-> [f EXCEPT !.pc = "set", !.m = AttendeeIds(f.id)],
                  ops |-> <<>>]
        ELSE \* f.pc = "set"
            [f |-> Return(f, InSeq(f.profileId, f.m), 0, Nil),
             ops |-> <<SetOp(key, "int64slice", f.m, mcTtl)>>]

\* the call of IsAttending(profileId, m.Id) the operation of frame f is
\* making: a new call when none is in progress
Attending(f) ==
    IF f.sub = <<>> THEN Frame("IsAttending", 0, f.m.id, f.profileId, Nil)
    ELSE f.sub[1]

\* one step of GetAttending(profileId) of EventType and EventSummaryType at
\* the end of a fetcher that returns status on success; every step of
\* IsAttending is a step of its own of the caller
GetAttending(f, ca, t, up, db, outcome, status) ==
    IF f.profileId = 0
    THEN [f |-> Return(f, f.m, status, Nil), ops |-> <<>>]
    ELSE LET r == IsAttending(Attending(f), ca, t, up, db, outcome)
         IN  IF r.f.pc # "ret"
             THEN [f |-> [f EXCEPT !.sub = <<r.f>>], ops |-> r.ops]
             ELSE IF r.f.err # Nil
             THEN [f |-> Return(Looked(f), NoRecord,
                                StatusInternalServerError, r.f.err),
                   ops |-> r.ops]
             ELSE [f |-> Return([Looked(f) EXCEPT !.m.attending = r.f.m],
                                [f.m EXCEPT !.attending = r.f.m], status,
                                Nil),
                   ops |-> r.ops]

----------------------------------------------------------------------------
(* GetEvent, GetEventSummary *)

\* one step of GetEvent.  On a cache hit the site of the cached event is
\* not compared with siteId, and the status returned is 0.
GetEvent(f, ca, t, up, db, outcome) ==
    IF f.pc = "start" THEN
        IF f.id = 0
        THEN [f |-> Return(f, NoRecord, StatusNotFound, "Event not found"),
              ops |-> <<>>]
        ELSE LET hit == CacheGet(ca, t, up,
                                 mcKey(ItemTypeEvent, "CacheDetail", f.id),
                                 "EventType")
             IN  IF hit.ok
                 THEN [f |-> [f EXCEPT !.m = hit.val, !.pc = "hitfetch"],
                       ops |-> <<>>]
                 ELSE [f |-> [f EXCEPT !.pc = "query"], ops |-> <<>>]
    ELSE IF f.pc \in {"hitfetch", "hitedited"} THEN
        FetchProfileSummaries(f, ca, t, up, db, outcome, "hitfetch",
                              "hitedited", "hitattend")
    ELSE IF f.pc = "hitattend" THEN
        GetAttending(f, ca, t, up, db, outcome, 0)
    ELSE IF f.pc = "query" THEN
        IF outcome = "connfail"
        THEN [f |-> Return(f, NoRecord, StatusInternalServerError, ConnErr),
              ops |-> <<>>]
        ELSE IF outcome = "queryfail"
        THEN [f |-> Return(f, NoRecord, StatusInternalServerError,
                           "Database query failed"),
              ops |-> <<>>]
        ELSE IF ~EventRowVisible(db, f.siteId, f.id)
        THEN [f |-> Return(f, NoRecord, StatusNotFound, "Event not found"),
              ops |-> <<>>]
        ELSE [f |-> [f EXCEPT !.pc = "set",
                              !.m = EventRecord("EventType", f.id,
                                                db.events[f.id])],
              ops |-> <<>>]
    ELSE IF f.pc = "set" THEN
        [f |-> [f EXCEPT !.pc = "fetch"],
         ops |-> <<SetOp(mcKey(ItemTypeEvent, "CacheDetail", f.id),
                         "EventType", f.m, mcTtl)>>]
    ELSE IF f.pc \in {"fetch", "edited"} THEN
        FetchProfileSummaries(f, ca, t, up, db, outcome, "fetch", "edited",
                              "attend")
    ELSE \* f.pc = "attend"
        GetAttending(f, ca, t, up, db, outcome, StatusOK)

\* one step of GetEventSummary.  Neither the cache hit nor the query looks
\* at siteId, and a missing row is reported with status 500.  After the
\* query comes GetLastComment(event, m.Id), made for every event; its error
\* ends the call before anything is cached, with the status of the callee
\* (500 for a failed query).  The events of the model have no comment.
GetEventSummary(f, ca, t, up, db, outcome) ==
    IF f.pc = "start" THEN
        IF f.id = 0
        THEN [f |-> Return(f, NoRecord, StatusNotFound, "Event not found"),
              ops |-> <<>>]
        ELSE LET hit == CacheGet(ca, t, up,
                                 mcKey(ItemTypeEvent, "CacheSummary", f.id),
                                 "EventSummaryType")
             IN  IF hit.ok
                 THEN [f |-> [f EXCEPT !.m = hit.val, !.pc = "hitfetch"],
                       ops |-> <<>>]
                 ELSE [f |-> [f EXCEPT !.pc = "query"], ops |-> <<>>]
    ELSE IF f.pc = "hitfetch" THEN
        FetchProfileSummariesOfSummary(f, ca, t, up, db, outcome,
                                       "hitattend")
    ELSE IF f.pc = "hitattend" THEN
        GetAttending(f, ca, t, up, db, outcome, StatusOK)
    ELSE IF f.pc = "query" THEN
        IF outcome = "connfail"
        THEN [f |-> Return(f, NoRecord, StatusInternalServerError, ConnErr),
              ops |-> <<>>]
        ELSE IF outcome = "queryfail"
        THEN [f |-> Return(f, NoRecord, StatusInternalServerError,
                           "Database query failed"),
              ops |-> <<>>]
        ELSE IF ~EventSummaryRowVisible(db, f.id)
        THEN [f |-> Return(f, NoRecord, StatusInternalServerError,
                           "Event with ID not found"),
              ops |-> <<>>]
        ELSE [f |-> [f EXCEPT !.pc = "comment",
                              !.m = EventRecord("EventSummaryType", f.id,
                                                db.events[f.id])],
              ops |-> <<>>]
    ELSE IF f.pc = "comment" THEN
        IF outcome # "ok"
        THEN [f |-> Return(f, NoRecord, StatusInternalServerError,
                           "Error fetching last comment"),
              ops |-> <<>>]
        ELSE [f |-> [f EXCEPT !.pc = "set"], ops |-> <<>>]
    ELSE IF f.pc = "set" THEN
        [f |-> [f EXCEPT !.pc = "fetch"],
         ops |-> <<SetOp(mcKey(ItemTypeEvent, "CacheSummary", f.id),
                         "EventSummaryType", f.m, mcTtl)>>]
    ELSE IF f.pc = "fetch" THEN
        FetchProfileSummariesOfSummary(f, ca, t, up, db, outcome, "attend")
    ELSE \* f.pc = "attend"
        GetAttending(f, ca, t, up, db, outcome, StatusOK)

----------------------------------------------------------------------------
(* Transactions *)

\* h.GetTransaction()
Begin(f) == [f EXCEPT !.tx = [state |-> "open", writes |-> <<>>]]

\* tx.Exec of an UPDATE: the write is pending until the commit
Exec(f, w) == [f EXCEPT !.tx.writes = Append(f.tx.writes, w)]

\* tx.Rollback(), also the deferred one of an early return
Rollback(f) == [f EXCEPT !.tx = [state |-> "rolledback", writes |-> <<>>]]

Committed(f) == [f EXCEPT !.tx.state = "committed"]

ProfileWrite(id, field, val) ==
    [table |-> "profiles", id |-> id, field |-> field, val |-> val]

EventWrite(id, field, val) ==
    [table |-> "events", id |-> id, field |-> field, val |-> val]

\* INSERT INTO profiles (...) VALUES (...) RETURNING profile_id
ProfileRow(id, row) ==
    [table |-> "profiles", id |-> id, field |-> "row", val |-> row]

ApplyWrite(db, w) ==
    IF w.field = "row"
    THEN [db EXCEPT !.profiles = Append(db.profiles, w.val)]
    ELSE IF w.table = "profiles"
    THEN IF w.id \in DOMAIN db.profiles
         THEN [db EXCEPT !.profiles[w.id][w.field] = w.val]
         ELSE db
    ELSE IF w.id \in DOMAIN db.events
         THEN [db EXCEPT !.events[w.id][w.field] = w.val]
         ELSE db

RECURSIVE ApplyWrites(_, _)
\* tx.Commit(): the pending writes become visible
ApplyWrites(db, ws) ==
    IF ws = <<>> THEN db
    ELSE ApplyWrites(ApplyWrite(db, Head(ws)), Tail(ws))

\* the return of a failed mutation: the deferred tx.Rollback() runs
Fail(f, status, err) ==
    Return(IF f.tx.state = "open" THEN Rollback(f) ELSE f, f.m, status, err)

----------------------------------------------------------------------------
(* Strings: profile names are sequences of characters *)

Digit(d) == <<"0", "1", "2", "3", "4", "5", "6", "7", "8", "9">>[d + 1]

RECURSIVE FormatInt(_)
\* strconv.FormatInt(n, 10), fmt.Sprintf("%d", n)
FormatInt(n) ==
    IF n < 0 THEN <<"-">> \o FormatInt(0 - n)
    ELSE IF n < 10 THEN <<Digit(n)>>
    ELSE FormatInt(n \div 10) \o <<Digit(n % 10)>>

RECURSIVE TrimLeft(_)
TrimLeft(s) == IF s # <<>> /\ Head(s) = " " THEN TrimLeft(Tail(s)) ELSE s

RECURSIVE TrimRight(_)
TrimRight(s) ==
    IF s # <<>> /\ s[Len(s)] = " "
    THEN TrimRight(SubSeq(s, 1, Len(s) - 1)) ELSE s

\* strings.Trim(s, " ")
Trim(s) == TrimRight(TrimLeft(s))

\* strings.Contains(s, ch) for a single character
Contains(s, ch) == \E i \in 1..Len(s) : s[i] = ch

\* strings.Replace(s, " ", "_", -1)
Underscored(s) == [i \in 1..Len(s) |-> IF s[i] = " " THEN "_" ELSE s[i]]

\* strings.ToLower and LOWER(profile_name); the upper case letters of the
\* model's names are A and U
ToLower(s) ==
    [i \in 1..Len(s) |-> IF s[i] = "A" THEN "a"
                         ELSE IF s[i] = "U" THEN "u" ELSE s[i]]

\* SuggestProfileName(user): reservedProfileNames is empty
SuggestProfileName(userId) ==
    <<"u", "s", "e", "r">> \o FormatInt(userId + 5830)

----------------------------------------------------------------------------
(* ProfileType.Validate *)

\* the fields of a ProfileType receiver the rows of the model carry; a time
\* of 0 is the zero time
Receiver(id, userId, name, commentCount, lastActive, created) ==
    [id |-> id, userId |-> userId, name |-> name,
     commentCount |-> commentCount, lastActive |-> lastActive,
     created |-> created]

NameChecked(name, status, err) ==
    [name |-> name, status |-> status, err |-> err]

\* ValidateProfileName(name); SanitiseText strips markup, which the names
\* of the model do not have
ValidateProfileName(name) ==
    LET n == Trim(name)
    IN  IF n = <<>>
        THEN NameChecked(n, StatusBadRequest, "You must supply a profile name")
        ELSE IF Len(n) < 2
        THEN NameChecked(n, StatusBadRequest, "Profile name is too short")
        ELSE IF Len(n) > 25
        THEN NameChecked(n, StatusBadRequest, "Profile name is too long")
        ELSE IF Contains(n, " ")
        THEN NameChecked(n, StatusBadRequest,
                         "Profile name cannot contain a space")
        ELSE IF Contains(n, "@")
        THEN NameChecked(n, StatusBadRequest,
                         "Profile name cannot contain an @")
        ELSE IF Contains(n, "+")
        THEN NameChecked(n, StatusBadRequest,
                         "Profile name cannot contain a +")
        ELSE NameChecked(n, StatusOK, Nil)

\* IsProfileNameTaken(siteId, userId, profileName): a profile of another
\* user of the site has the name, whatever the case of its letters
IsProfileNameTaken(db, siteId, userId, name) ==
    \E p \in DOMAIN db.profiles :
        /\ db.profiles[p].site = siteId
        /\ ToLower(db.profiles[p].name) = ToLower(name)
        /\ db.profiles[p].user # userId

\* the end of Validate: what a profile that does not exist yet must leave
\* unset
ValidateNew(f, exists, next, db) ==
    IF ~exists /\ f.m.id # 0
    THEN Result(Return(f, f.m, StatusBadRequest, "You cannot specify an ID"),
                <<>>, db)
    ELSE IF ~exists /\ f.m.commentCount # 0
    THEN Result(Return(f, f.m, StatusBadRequest,
                       "You cannot specify comment count"), <<>>, db)
    ELSE IF ~exists /\ f.m.created # 0
    THEN Result(Return(f, f.m, StatusBadRequest,
                       "You cannot specify creation time"), <<>>, db)
    ELSE IF ~exists /\ f.m.lastActive # 0
    THEN Result(Return(f, f.m, StatusBadRequest,
                       "You cannot specify last active time"), <<>>, db)
    ELSE Result([f EXCEPT !.pc = next], <<>>, db)

\* one step of (m *ProfileType).Validate(exists) on the receiver f.m of the
\* site f.siteId, which has a site, a user and a style: the name is checked
\* and looked up among the profiles of the site (start), and a name that is
\* taken is replaced by the one suggested for the user (suggest).  The
\* error of GetUser is returned with its status, that of a failed query.
Validating(f, db, outcome, exists, next) ==
    IF f.pc = "start" THEN
        LET v == ValidateProfileName(f.m.name)
            g == [f EXCEPT !.m.name = v.name]
        IN  IF v.err # Nil
            THEN Result(Return(f, f.m, v.status, v.err), <<>>, db)
            ELSE IF outcome = "connfail"
            THEN Result(Return(g, g.m, StatusInternalServerError, ConnErr),
                        <<>>, db)
            ELSE IF outcome = "queryfail"
            THEN Result(Return(g, g.m, StatusInternalServerError,
                               "Database query failed: query failed"),
                        <<>>, db)
            ELSE IF outcome = "scanfail"
            THEN Result(Return(g, g.m, StatusInternalServerError,
                               "Row parsing error: scan failed"), <<>>, db)
            ELSE IF outcome = "rowsfail"
            THEN Result(Return(g, g.m, StatusInternalServerError,
                               "Error fetching rows: rows failed"), <<>>, db)
            ELSE IF IsProfileNameTaken(db, f.siteId, g.m.userId, g.m.name)
            THEN Result([g EXCEPT !.pc = "suggest"], <<>>, db)
            ELSE ValidateNew(g, exists, next, db)
    ELSE \* f.pc = "suggest"
        IF outcome # "ok"
        THEN Result(Return(f, f.m, StatusInternalServerError,
                           "Could not get user"), <<>>, db)
        ELSE ValidateNew([f EXCEPT
                             !.m.name = SuggestProfileName(f.m.userId)],
                         exists, next, db)

ValidatePcs == {"start", "suggest"}

----------------------------------------------------------------------------
(* ProfileType.Update, UpdateLastActive, UpdateUnreadHuddleCount *)

\* UPDATE profiles SET profile_name = $2, ..., comment_count = $7,
\* last_active = $8, ... WHERE profile_id = $1: every column from the
\* receiver
ProfileWrites(id, m) ==
    <<ProfileWrite(id, "name", m.name),
      ProfileWrite(id, "commentCount", m.commentCount),
      ProfileWrite(id, "lastActive", m.lastActive)>>

\* one step of ProfileType.Update; f.m is the receiver: Validate(true),
\* then the transaction with the UPDATE (begin), the commit and the purge
ProfileUpdate(f, db, outcome) ==
    IF f.pc \in ValidatePcs THEN Validating(f, db, outcome, TRUE, "begin")
    ELSE IF f.pc = "begin" THEN
        IF outcome = "connfail"
        THEN Result(Fail(f, StatusInternalServerError,
                         "Could not start transaction"), <<>>, db)
        ELSE IF outcome = "queryfail"
        THEN Result(Fail(Begin(f), StatusInternalServerError,
                         "Update of profile failed"), <<>>, db)
        ELSE Result([Begin(f) EXCEPT
                        !.tx.writes = ProfileWrites(f.id, f.m),
                        !.pc = "commit"], <<>>, db)
    ELSE IF f.pc = "commit" THEN
        IF outcome = "commitfail"
        THEN Result(Fail(f, StatusInternalServerError, "Transaction failed"),
                    <<>>, db)
        ELSE Result([Committed(f) EXCEPT !.pc = "purge"], <<>>,
                    ApplyWrites(db, f.tx.writes))
    ELSE \* f.pc = "purge"
        Result(Return(f, f.m, StatusOK, Nil),
               <<PurgeCache(ItemTypeProfile, f.id)>>, db)

\* a call of Update, Insert or Import on the receiver m
Receiving(op, siteId, m, isImport) ==
    [Frame(op, siteId, m.id, 0, isImport) EXCEPT !.m = m]

\* the call of m.Update() that insert is making
Updating(f) ==
    IF f.sub = <<>> THEN Receiving("ProfileUpdate", f.siteId, f.m, FALSE)
    ELSE f.sub[1]

\* the receiver as Insert and Import hand it to insert: Insert stamps it
\* with the time, Import takes the creation time for a last activity that
\* is older
Stamped(m, isImport, t) ==
    IF ~isImport THEN [m EXCEPT !.created = t, !.lastActive = t]
    ELSE IF m.lastActive < m.created
    THEN [m EXCEPT !.lastActive = m.created]
    ELSE m

\* one step of ProfileType.Insert and Import with insert(isImport); f.m is
\* the receiver, f.arg is isImport, f.siteId the SiteId and t the time.
\* Import replaces the spaces of the name, and validates as if the profile
\* existed.  The row is visible from the commit on; then come the user and
\* avatar lookups, m.Update() step by step, and the goroutine of
\* go PurgeCache, left in sub for the scheduler.  go MarkAllAsRead(m.Id)
\* writes nothing the model keeps.
ProfileInsert(f, t, db, outcome) ==
    IF f.pc \in ValidatePcs THEN
        Validating(IF f.arg /\ f.pc = "start"
                   THEN [f EXCEPT !.m.name = Underscored(f.m.name)] ELSE f,
                   db, outcome, f.arg, "insert")
    ELSE IF f.pc = "insert" THEN
        LET g == [f EXCEPT !.m = Stamped(f.m, f.arg, t)]
            h == [Begin(g) EXCEPT !.m.id = Len(db.profiles) + 1]
        IN  IF outcome = "connfail"
            THEN Result(Return(g, g.m, StatusInternalServerError,
                               "Could not start transaction"), <<>>, db)
            ELSE IF outcome = "queryfail"
            THEN Result(Fail(Begin(g), StatusInternalServerError,
                             "Error inserting data and returning ID"),
                        <<>>, db)
            ELSE IF outcome = "defaultsfail"
            THEN Result(Fail(h, StatusInternalServerError,
                             "Could not load default profile options"),
                        <<>>, db)
            ELSE IF outcome = "optionsfail"
            THEN Result(Fail(h, StatusInternalServerError,
                             "Could not insert new profile options"),
                        <<>>, db)
            ELSE Result([h EXCEPT
                            !.tx.writes =
                                <<ProfileRow(h.m.id,
                                             [site |-> f.siteId,
                                              user |-> h.m.userId,
                                              name |-> h.m.name,
                                              lastActive |-> h.m.lastActive,
                                              unread |-> 0,
                                              commentCount |->
                                                  h.m.commentCount,
                                              created |-> h.m.created])>>,
                            !.pc = "commit"], <<>>, db)
    ELSE IF f.pc = "commit" THEN
        IF outcome = "commitfail"
        THEN Result(Fail(f, StatusInternalServerError, "Transaction failed"),
                    <<>>, db)
        ELSE Result([Committed(f) EXCEPT !.pc = "user"], <<>>,
                    ApplyWrites(db, f.tx.writes))
    ELSE IF f.pc = "user" THEN
        IF outcome # "ok"
        THEN Result(Return(f, f.m, StatusInternalServerError,
                           "No user found for profile"), <<>>, db)
        ELSE Result([f EXCEPT !.pc = IF f.arg THEN "update" ELSE "gravatar"],
                    <<>>, db)
    ELSE IF f.pc = "gravatar" THEN
        IF outcome # "ok"
        THEN Result(Return(f, f.m, StatusInternalServerError,
                           "Could not store gravatar for profile"), <<>>, db)
        ELSE Result([f EXCEPT !.pc = "avatar"], <<>>, db)
    ELSE IF f.pc = "avatar" THEN
        IF outcome # "ok"
        THEN Result(Return(f, f.m, StatusInternalServerError,
                           "Could not attach avatar to profile"), <<>>, db)
        ELSE Result([f EXCEPT !.pc = "update"], <<>>, db)
    ELSE \* f.pc = "update"
        LET r == ProfileUpdate(Updating(f), db, outcome)
        IN  IF r.f.pc # "ret"
            THEN Result([f EXCEPT !.sub = <<r.f>>], r.ops, r.db)
            ELSE IF r.f.err # Nil
            THEN Result(Return([Looked(f) EXCEPT !.m = r.f.m], r.f.m,
                               r.f.status,
                               "Could not update profile with avatar"),
                        r.ops, r.db)
            ELSE Result(Return([f EXCEPT
                                   !.m = r.f.m,
                                   !.sub = <<Frame("PurgeCache", f.siteId,
                                                   f.m.id, 0, Nil)>>],
                               r.f.m, StatusOK, Nil),
                        r.ops, r.db)

\* the goroutine of go PurgeCache(h.ItemTypes[h.ItemTypeProfile], m.Id)
GoPurgeCache(f, db) ==
    Result(IdleFrame, <<PurgeCache(ItemTypeProfile, f.id)>>, db)

\* one step of IncrementProfileCommentCount (by = 1) and
\* DecrementProfileCommentCount (by = -1): the UPDATE runs on the
\* connection, outside any transaction, and nothing is returned
AddProfileCommentCount(f, db, outcome, by) ==
    IF f.pc = "start" THEN
        IF outcome # "ok" THEN Result(Return(f, f.m, 0, Nil), <<>>, db)
        ELSE Result([f EXCEPT !.pc = "purge"], <<>>,
                    ApplyWrite(db, ProfileWrite(f.id, "commentCount",
                                   db.profiles[f.id].commentCount + by)))
    ELSE \* f.pc = "purge"
        Result(Return(f, f.m, 0, Nil),
               <<PurgeCacheByScope("CacheDetail", ItemTypeProfile, f.id)>>,
               db)

IncrementProfileCommentCount(f, db, outcome) ==
    AddProfileCommentCount(f, db, outcome, 1)

DecrementProfileCommentCount(f, db, outcome) ==
    AddProfileCommentCount(f, db, outcome, 0 - 1)

\* UPDATE profiles SET comment_count = 0 ... WHERE site_id = $1
CountsReset(db, siteId) ==
    [db EXCEPT !.profiles =
        [p \in DOMAIN db.profiles |->
            IF db.profiles[p].site = siteId
            THEN [db.profiles[p] EXCEPT !.commentCount = 0]
            ELSE db.profiles[p]]]

\* UPDATE profiles AS p SET comment_count = c.comment_count FROM (...) AS c
\* WHERE p.profile_id = c.profile_id: tally gives the comments the flags
\* table holds of the profiles that have some
CountsSet(db, tally) ==
    [db EXCEPT !.profiles =
        [p \in DOMAIN db.profiles |->
            IF p \in DOMAIN tally /\ tally[p] > 0
            THEN [db.profiles[p] EXCEPT !.commentCount = tally[p]]
            ELSE db.profiles[p]]]

\* one step of UpdateCommentCountForAllProfiles(siteId), which
\* UpdateProfileCounts runs for every site; f.arg is the tally of the
\* comments.  Three statements on the connection, each committed as it
\* ends: the reset (start), the comment counts (count), the item counts,
\* which the rows of the model do not carry (items).  Nothing is purged.
UpdateCommentCountForAllProfiles(f, db, outcome) ==
    IF outcome = "connfail"
    THEN Result(Return(f, f.m, StatusInternalServerError,
                       "Could not get db connection: connection failed"),
                <<>>, db)
    ELSE IF outcome = "queryfail"
    THEN Result(Return(f, f.m, StatusInternalServerError,
                       "Update of comment count failed: query failed"),
                <<>>, db)
    ELSE IF f.pc = "start"
    THEN Result([f EXCEPT !.pc = "count"], <<>>, CountsReset(db, f.siteId))
    ELSE IF f.pc = "count"
    THEN Result([f EXCEPT !.pc = "items"], <<>>, CountsSet(db, f.arg))
    ELSE \* f.pc = "items"
        Result(Return(f, f.m, StatusOK, Nil), <<>>, db)

\* one step of UpdateLastActive; f.arg is the lastActive time
UpdateLastActive(f, db, outcome) ==
    IF f.pc = "start" THEN
        IF outcome = "connfail"
        THEN Result(Fail(f, StatusInternalServerError,
                         "Could not get a database connection"), <<>>, db)
        ELSE IF outcome = "beginfail"
        THEN Result(Fail(f, StatusInternalServerError,
                         "Could not start transaction"), <<>>, db)
        ELSE IF outcome = "queryfail"
        THEN Result(Fail(Begin(f), StatusInternalServerError,
                         "Update of last active failed"), <<>>, db)
        ELSE Result([Exec(Begin(f), ProfileWrite(f.id, "lastActive", f.arg))
                        EXCEPT !.pc = "commit"], <<>>, db)
    ELSE IF f.pc = "commit" THEN
        IF outcome = "commitfail"
        THEN Result(Fail(f, StatusInternalServerError, "Transaction failed"),
                    <<>>, db)
        ELSE Result([Committed(f) EXCEPT !.pc = "purge"], <<>>,
                    ApplyWrites(db, f.tx.writes))
    ELSE \* f.pc = "purge"
        Result(Return(f, f.m, StatusOK, Nil),
               <<PurgeCacheByScope("CacheDetail", ItemTypeProfile, f.id)>>,
               db)

\* one step of UpdateUnreadHuddleCount with its helper
\* updateUnreadHuddleCount(tx, profileID); f.arg is the count the UPDATE
\* computes from the huddle tables.  The helper purges before it returns,
\* the caller commits afterwards.  Nothing is returned to the caller.
UpdateUnreadHuddleCount(f, db, outcome) ==
    IF f.pc = "start" THEN
        IF outcome = "connfail"
        THEN Result(Return(f, f.m, 0, Nil), <<>>, db)
        ELSE IF outcome = "queryfail"
        THEN Result([Begin(f) EXCEPT !.pc = "commit"], <<>>, db)
        ELSE Result([Exec(Begin(f), ProfileWrite(f.id, "unread", f.arg))
                        EXCEPT !.pc = "purge"], <<>>, db)
    ELSE IF f.pc = "purge" THEN
        Result([f EXCEPT !.pc = "commit"],
               <<PurgeCacheByScope("CacheCounts", ItemTypeProfile, f.id)>>,
               db)
    ELSE \* f.pc = "commit"
        IF outcome = "commitfail" \/ f.tx.writes = <<>>
        THEN Result(Return(Rollback(f), f.m, 0, Nil), <<>>, db)
        ELSE Result(Return(Committed(f), f.m, 0, Nil), <<>>,
                    ApplyWrites(db, f.tx.writes))

----------------------------------------------------------------------------
(* EventType.Validate and the dedup fingerprint *)

EventStatusProposed == <<"p", "r", "o", "p", "o", "s", "e", "d">>
EventStatusUpcoming == <<"u", "p", "c", "o", "m", "i", "n", "g">>

\* fmt.Sprintf("%b", 0.0): the coordinates and bounds of the model's events
\* are all zero
FormatZeroFloat == <<"0", "p", "-", "1", "0", "7", "4">>

Validated(m, status, err) == [m |-> m, status |-> status, err |-> err]

\* EventType.Validate(siteId, profileId, exists) on the payload m: strings
\* are sequences of characters, m.when is empty or an RFC3339 time.
\* GetMicrocosmSummary fails when the microcosm is not one of the site.
Validate(m, siteId, exists) ==
    IF ~exists /\ (m.microcosmId \notin MicrocosmIds
                   \/ MicrocosmSite(m.microcosmId) # siteId)
    THEN Validated(m, StatusNotFound, "Microcosm not found")
    ELSE IF exists /\ m.editReason = <<>>
    THEN Validated(m, StatusBadRequest,
                   "You must provide a reason for the update")
    ELSE IF m.microcosmId <= 0
    THEN Validated(m, StatusBadRequest, "You must specify a Microcosm ID")
    ELSE IF m.title = <<>>
    THEN Validated(m, StatusBadRequest, "Title is a required field")
    ELSE LET m1 == [m EXCEPT !.status = IF m.when = <<>>
                                         THEN EventStatusProposed
                                         ELSE EventStatusUpcoming]
             m2 == IF m1.duration < 0 THEN [m1 EXCEPT !.duration = 60 * 1]
                   ELSE m1
         IN  IF m2.rsvpLimit < 0
             THEN Validated(m2, StatusBadRequest,
                            "RSVPLimit must be 0 (unlimited) or greater")
             ELSE Validated([m2 EXCEPT !.rsvpSpaces = m2.rsvpLimit],
                            StatusOK, Nil)

\* the string handed to h.Md5sum; the digest is taken to be collision free,
\* so the key is the string itself
DupeKey(m) ==
    <<"dupe",
      FormatInt(m.microcosmId) \o m.title \o m.when \o <<>>
      \o FormatZeroFloat \o FormatZeroFloat \o FormatZeroFloat
      \o FormatZeroFloat \o FormatZeroFloat \o FormatZeroFloat
      \o m.status \o FormatInt(m.rsvpLimit) \o FormatInt(m.createdById)>>

\* an event as a request body describes it
Payload(microcosmId, title, when, duration, rsvpLimit, createdById, reason) ==
    [microcosmId |-> microcosmId, title |-> title, when |-> when,
     duration |-> duration, rsvpLimit |-> rsvpLimit, rsvpSpaces |-> 0,
     createdById |-> createdById, editedById |-> 0, editReason |-> reason,
     status |-> <<>>, id |-> 0]

Titles == {<<"a">>, <<"1", "a">>}

\* the events a request may ask to create: any microcosm, title and author
InsertPayloads ==
    {Payload(mid, title, <<>>, 0, 0, p, <<>>) :
        mid \in MicrocosmIds, title \in Titles, p \in ProfIds}

\* the row INSERT INTO events writes at time t, not visible until the commit;
\* the flags are not among the columns of the INSERT and start unset
EventRow(m, t) ==
    [microcosmId |-> m.microcosmId, title |-> m.title, when |-> m.when,
     duration |-> m.duration, status |-> m.status,
     rsvpLimit |-> m.rsvpLimit, createdById |-> m.createdById,
     editedById |-> 0, sticky |-> FALSE, open |-> FALSE, deleted |-> FALSE,
     moderated |-> FALSE, committed |-> FALSE, created |-> t]

----------------------------------------------------------------------------
(* EventType.Insert, Update, Patch, Delete *)

\* the entries of the microcosm with the event's number are removed, the
\* event's own are left in the cache
PurgeEvent_Microcosm(id) == <<PurgeCache(ItemTypeMicrocosm, id)>>

\* PurgeCache(h.ItemTypes[h.ItemTypeEvent], m.Id): the first of the two
\* purges at the end of every event mutation, a call of its own
PurgeEvent(id) == <<PurgeCache(ItemTypeEvent, id)>>

\* PurgeCache(h.ItemTypes[h.ItemTypeMicrocosm], m.MicrocosmId): the second
PurgeMicrocosm(microcosmId) == <<PurgeCache(ItemTypeMicrocosm, microcosmId)>>

\* the token is stored with no time to live
SetDupeKey_Expired(m) == SetOp(DupeKey(m), "int64", m.id, 0)

\* c.CacheSetInt64(dupeKey, m.Id, 60*5)
SetDupeKey(m) == SetOp(DupeKey(m), "int64", m.id, DupeTtl)

\* a hit writes the token again, with a new five minutes to live
EventInsert_Refresh(f, ca, t, up, db, outcome) ==
    IF f.pc = "start" THEN
        LET v == Validate(f.arg, f.siteId, FALSE)
            hit == CacheGetInt64(ca, t, up, DupeKey(v.m))
        IN  IF outcome = "invalid"
            THEN Result(Return(f, f.arg, StatusInternalServerError, ConnErr),
                        <<>>, db)
            ELSE IF v.err # Nil
            THEN Result(Return(f, v.m, v.status, v.err), <<>>, db)
            ELSE IF hit.ok
            THEN Result(Return(f, [v.m EXCEPT !.id = hit.val], StatusOK, Nil),
                        <<SetDupeKey([v.m EXCEPT !.id = hit.val])>>, db)
            ELSE Result([f EXCEPT !.m = v.m, !.pc = "insert"], <<>>, db)
    ELSE IF f.pc = "insert" THEN
        IF outcome = "connfail"
        THEN Result(Fail(f, StatusInternalServerError, ConnErr), <<>>, db)
        ELSE IF outcome = "queryfail"
        THEN Result(Fail(Begin(f), StatusInternalServerError,
                         "Error inserting data and returning ID"), <<>>, db)
        ELSE IF outcome = "countfail"
        THEN Result(Fail([Begin(f) EXCEPT !.m.id = Len(db.events) + 1],
                         StatusInternalServerError, CountErr),
                    <<>>,
                    [db EXCEPT !.events = Append(db.events,
                                                 EventRow(f.m, t))])
        ELSE Result([Begin(f) EXCEPT !.m.id = Len(db.events) + 1,
                                     !.pc = "commit"],
                    <<>>,
                    [db EXCEPT !.events = Append(db.events,
                                                 EventRow(f.m, t))])
    ELSE IF f.pc = "commit" THEN
        IF outcome = "commitfail"
        THEN Result(Fail(f, StatusInternalServerError, "Transaction failed"),
                    <<>>, db)
        ELSE Result([Committed(f) EXCEPT !.pc = "token"], <<>>,
                    [db EXCEPT !.events[f.m.id].committed = TRUE])
    ELSE IF f.pc = "token" THEN
        Result([f EXCEPT !.pc = "purge"], <<SetDupeKey(f.m)>>, db)
    ELSE IF f.pc = "purge" THEN
        Result([f EXCEPT !.pc = "microcosm"], PurgeEvent(f.m.id), db)
    ELSE \* f.pc = "microcosm"
        Result(Return(f, f.m, StatusOK, Nil),
               PurgeMicrocosm(f.m.microcosmId), db)

\* the token is written before the commit is known to have succeeded
EventInsert_TokenFirst(f, ca, t, up, db, outcome) ==
    IF f.pc = "start" THEN
        LET v == Validate(f.arg, f.siteId, FALSE)
            hit == CacheGetInt64(ca, t, up, DupeKey(v.m))
        IN  IF outcome = "invalid"
            THEN Result(Return(f, f.arg, StatusInternalServerError, ConnErr),
                        <<>>, db)
            ELSE IF v.err # Nil
            THEN Result(Return(f, v.m, v.status, v.err), <<>>, db)
            ELSE IF hit.ok
            THEN Result(Return(f, [v.m EXCEPT !.id = hit.val], StatusOK, Nil),
                        <<>>, db)
            ELSE Result([f EXCEPT !.m = v.m, !.pc = "insert"], <<>>, db)
    ELSE IF f.pc = "insert" THEN
        IF outcome = "connfail"
        THEN Result(Fail(f, StatusInternalServerError, ConnErr), <<>>, db)
        ELSE IF outcome = "queryfail"
        THEN Result(Fail(Begin(f), StatusInternalServerError,
                         "Error inserting data and returning ID"), <<>>, db)
        ELSE IF outcome = "countfail"
        THEN Result(Fail([Begin(f) EXCEPT !.m.id = Len(db.events) + 1],
                         StatusInternalServerError, CountErr),
                    <<>>,
                    [db EXCEPT !.events = Append(db.events,
                                                 EventRow(f.m, t))])
        ELSE Result([Begin(f) EXCEPT !.m.id = Len(db.events) + 1,
                                     !.pc = "commit"],
                    <<>>,
                    [db EXCEPT !.events = Append(db.events,
                                                 EventRow(f.m, t))])
    ELSE IF f.pc = "commit" THEN
        IF outcome = "commitfail"
        THEN Result(Fail(f, StatusInternalServerError, "Transaction failed"),
                    <<SetDupeKey(f.m)>>, db)
        ELSE Result([Committed(f) EXCEPT !.pc = "token"], <<>>,
                    [db EXCEPT !.events[f.m.id].committed = TRUE])
    ELSE IF f.pc = "token" THEN
        Result([f EXCEPT !.pc = "purge"], <<SetDupeKey(f.m)>>, db)
    ELSE IF f.pc = "purge" THEN
        Result([f EXCEPT !.pc = "microcosm"], PurgeEvent(f.m.id), db)
    ELSE \* f.pc = "microcosm"
        Result(Return(f, f.m, StatusOK, Nil),
               PurgeMicrocosm(f.m.microcosmId), db)

\* one step of EventType.Insert; f.arg is the payload.  After the commit
\* come three calls that each go to the cache on their own, other requests
\* running in between: the token (token), the purge of the event (purge),
\* the purge of the microcosm (microcosm)
EventInsert(f, ca, t, up, db, outcome) ==
    IF f.pc = "start" THEN
        LET v == Validate(f.arg, f.siteId, FALSE)
            hit == CacheGetInt64(ca, t, up, DupeKey(v.m))
        IN  IF outcome = "invalid"
            THEN Result(Return(f, f.arg, StatusInternalServerError, ConnErr),
                        <<>>, db)
            ELSE IF v.err # Nil
            THEN Result(Return(f, v.m, v.status, v.err), <<>>, db)
            ELSE IF hit.ok
            THEN Result(Return(f, [v.m EXCEPT !.id = hit.val], StatusOK, Nil),
                        <<>>, db)
            ELSE Result([f EXCEPT !.m = v.m, !.pc = "insert"], <<>>, db)
    ELSE IF f.pc = "insert" THEN
        IF outcome = "connfail"
        THEN Result(Fail(f, StatusInternalServerError, ConnErr), <<>>, db)
        ELSE IF outcome = "queryfail"
        THEN Result(Fail(Begin(f), StatusInternalServerError,
                         "Error inserting data and returning ID"), <<>>, db)
        ELSE IF outcome = "countfail"
        THEN Result(Fail([Begin(f) EXCEPT !.m.id = Len(db.events) + 1],
                         StatusInternalServerError, CountErr),
                    <<>>,
                    [db EXCEPT !.events = Append(db.events,
                                                 EventRow(f.m, t))])
        ELSE Result([Begin(f) EXCEPT !.m.id = Len(db.events) + 1,
                                     !.pc = "commit"],
                    <<>>,
                    [db EXCEPT !.events = Append(db.events,
                                                 EventRow(f.m, t))])
    ELSE IF f.pc = "commit" THEN
        IF outcome = "commitfail"
        THEN Result(Fail(f, StatusInternalServerError, "Transaction failed"),
                    <<>>, db)
        ELSE Result([Committed(f) EXCEPT !.pc = "token"], <<>>,
                    [db EXCEPT !.events[f.m.id].committed = TRUE])
    ELSE IF f.pc = "token" THEN
        Result([f EXCEPT !.pc = "purge"], <<SetDupeKey(f.m)>>, db)
    ELSE IF f.pc = "purge" THEN
        Result([f EXCEPT !.pc = "microcosm"], PurgeEvent(f.m.id), db)
    ELSE \* f.pc = "microcosm"
        Result(Return(f, f.m, StatusOK, Nil),
               PurgeMicrocosm(f.m.microcosmId), db)

\* UPDATE events SET microcosm_id = $2, title = $3, ... WHERE event_id = $1
UpdateWrites(id, m) ==
    <<EventWrite(id, "microcosmId", m.microcosmId),
      EventWrite(id, "title", m.title),
      EventWrite(id, "editedById", m.editedById),
      EventWrite(id, "when", m.when),
      EventWrite(id, "duration", m.duration),
      EventWrite(id, "status", m.status),
      EventWrite(id, "rsvpLimit", m.rsvpLimit)>>

\* the error of UpdateAttendees
AttendeesErr == "Update of event attendees failed"

\* one step of EventType.Update; f.id is the event, f.arg the receiver and
\* f.profileId the profileId argument, which an update does not use:
\* edited_by is the receiver's Meta.EditedByNullable (0 when not Valid).
\* UpdateAttendees recomputes rsvp_attending and rsvp_spaces, columns the
\* rows of the model do not carry.
EventUpdate(f, db, outcome) ==
    IF f.pc = "start" THEN
        LET v == Validate(f.arg, f.siteId, TRUE)
            g == [f EXCEPT !.m = v.m]
        IN  IF v.err # Nil
            THEN Result(Return(f, v.m, v.status, v.err), <<>>, db)
            ELSE IF outcome = "connfail"
            THEN Result(Fail(g, StatusInternalServerError, ConnErr), <<>>, db)
            ELSE IF outcome = "queryfail"
            THEN Result(Fail(Begin(g), StatusInternalServerError,
                             "Update of event failed"), <<>>, db)
            ELSE IF outcome = "attendfail"
            THEN Result(Fail(Begin(g), StatusInternalServerError,
                             AttendeesErr), <<>>, db)
            ELSE Result([Begin(f) EXCEPT
                            !.tx.writes = UpdateWrites(f.id, v.m),
                            !.m = v.m, !.pc = "commit"], <<>>, db)
    ELSE IF f.pc = "commit" THEN
        IF outcome = "commitfail"
        THEN Result(Fail(f, StatusInternalServerError, "Transaction failed"),
                    <<>>, db)
        ELSE Result([Committed(f) EXCEPT !.pc = "purge"], <<>>,
                    ApplyWrites(db, f.tx.writes))
    ELSE IF f.pc = "purge" THEN
        Result([f EXCEPT !.pc = "microcosm"], PurgeEvent(f.id), db)
    ELSE \* f.pc = "microcosm"
        Result(Return(f, f.m, StatusOK, Nil),
               PurgeMicrocosm(f.m.microcosmId), db)

\* the column of the switch on patch.Path
PatchColumn(path) ==
    IF path = "/meta/flags/sticky" THEN "sticky"
    ELSE IF path = "/meta/flags/open" THEN "open"
    ELSE IF path = "/meta/flags/deleted" THEN "deleted"
    ELSE IF path = "/meta/flags/moderated" THEN "moderated"
    ELSE "unsupported"

\* UPDATE events SET <column> = $2, edited = $4, edited_by = $5 ...
PatchWrites(id, profileId, patch) ==
    <<EventWrite(id, PatchColumn(patch.path), patch.bool),
      EventWrite(id, "editedById", profileId)>>

\* the patches the loop has executed: each leaves two pending writes
Patched(f) == Len(f.tx.writes) \div 2

\* one step of EventType.Patch; f.arg is the list of patches, f.profileId
\* the profile of the AuthContext, f.m the event read by the caller.  The
\* loop takes the patches in order: the editor is set, the path decides the
\* column and the flag of the receiver, then the UPDATE is executed.
EventPatch(f, db, outcome) ==
    IF f.pc = "start" THEN
        IF outcome = "connfail"
        THEN Result(Fail(f, StatusInternalServerError, ConnErr), <<>>, db)
        ELSE Result([Begin(f) EXCEPT !.pc = IF f.arg = <<>> THEN "commit"
                                            ELSE "patch"], <<>>, db)
    ELSE IF f.pc = "patch" THEN
        LET patch == f.arg[Patched(f) + 1]
            column == PatchColumn(patch.path)
            e == [f EXCEPT !.m.editedById = f.profileId]
            g == [e EXCEPT !.m[column] = patch.bool]
        IN  IF column = "unsupported"
            THEN Result(Fail(e, StatusBadRequest,
                             "Unsupported path in patch replace operation"),
                        <<>>, db)
            ELSE IF outcome = "queryfail"
            THEN Result(Fail(g, StatusInternalServerError, "Update failed"),
                        <<>>, db)
            ELSE Result([g EXCEPT
                            !.tx.writes = f.tx.writes
                                \o PatchWrites(f.id, f.profileId, patch),
                            !.pc = IF Patched(f) + 1 = Len(f.arg)
                                   THEN "commit" ELSE "patch"], <<>>, db)
    ELSE IF f.pc = "commit" THEN
        IF outcome = "commitfail"
        THEN Result(Fail(f, StatusInternalServerError, "Transaction failed"),
                    <<>>, db)
        ELSE Result([Committed(f) EXCEPT !.pc = "purge"], <<>>,
                    ApplyWrites(db, f.tx.writes))
    ELSE IF f.pc = "purge" THEN
        Result([f EXCEPT !.pc = "microcosm"], PurgeEvent(f.id), db)
    ELSE \* f.pc = "microcosm"
        Result(Return(f, f.m, StatusOK, Nil),
               PurgeMicrocosm(f.m.microcosmId), db)

\* one step of EventType.Delete; f.m is the event read by the caller
EventDelete(f, db, outcome) ==
    IF f.pc = "start" THEN
        IF outcome = "connfail"
        THEN Result(Fail(f, StatusInternalServerError, ConnErr), <<>>, db)
        ELSE IF outcome = "queryfail"
        THEN Result(Fail(Begin(f), StatusInternalServerError,
                         "Delete failed"), <<>>, db)
        ELSE IF outcome = "countfail"
        THEN Result(Fail(Begin(f), StatusInternalServerError, CountErr),
                    <<>>, db)
        ELSE Result([Exec(Begin(f), EventWrite(f.id, "deleted", TRUE))
                        EXCEPT !.pc = "commit"], <<>>, db)
    ELSE IF f.pc = "commit" THEN
        IF outcome = "commitfail"
        THEN Result(Fail(f, StatusInternalServerError, "Transaction failed"),
                    <<>>, db)
        ELSE Result([Committed(f) EXCEPT !.pc = "purge"], <<>>,
                    ApplyWrites(db, f.tx.writes))
    ELSE IF f.pc = "purge" THEN
        Result([f EXCEPT !.pc = "microcosm"], PurgeEvent(f.id), db)
    ELSE \* f.pc = "microcosm"
        Result(Return(f, f.m, StatusOK, Nil),
               PurgeMicrocosm(f.m.microcosmId), db)

----------------------------------------------------------------------------
(* Paging helpers *)

\* pages = ceil(total / limit)
GetPageCount(total, limit) == (total + limit - 1) \div limit

\* the negative product kept when there is no page
GetMaxOffset_Unclamped(total, limit) ==
    (GetPageCount(total, limit) - 1) * limit

\* maxOffset = max(0, (pages - 1) * limit)
GetMaxOffset(total, limit) ==
    LET o == (GetPageCount(total, limit) - 1) * limit
    IN  IF o > 0 THEN o ELSE 0

----------------------------------------------------------------------------
(* The fan-out/gather of GetProfiles and GetIgnored *)

Min(a, b) == IF a < b THEN a ELSE b

\* the rows the LIMIT/OFFSET query returns out of the ordered matches
Page(rows, limit, offset) ==
    IF offset >= Len(rows) THEN <<>>
    ELSE SubSeq(rows, offset + 1, Min(offset + limit, Len(rows)))

\* ProfileSummaryRequest / SummaryContainerRequest
Response(u, seq) ==
    [Item |-> u.m, Status |-> u.status, Err |-> u.err, Seq |-> seq]

\* ProfileSummaryRequestBySeq.Less
Less(a, b) == a.Seq < b.Seq

RECURSIVE Insert(_, _)
Insert(sorted, x) ==
    IF sorted = <<>> THEN <<x>>
    ELSE IF Less(x, Head(sorted)) THEN <<x>> \o sorted
    ELSE <<Head(sorted)>> \o Insert(Tail(sorted), x)

\* the sort left out: the responses stay in completion order
SortBySeq_Unsorted(resps) == resps

RECURSIVE SortBySeq(_)
\* sort.Sort(ProfileSummaryRequestBySeq(resps))
SortBySeq(resps) ==
    IF resps = <<>> THEN <<>>
    ELSE Insert(SortBySeq(Tail(resps)), Head(resps))

\* the first response with a non-nil error, in slice order (0 when none)
RECURSIVE FirstErr(_, _)
FirstErr(resps, i) ==
    IF i > Len(resps) THEN 0
    ELSE IF resps[i].Err # Nil THEN i
    ELSE FirstErr(resps, i + 1)

ListReturn(items, total, pages, status, err) ==
    [items |-> items, total |-> total, pages |-> pages,
     status |-> status, err |-> err]

NoReturn == ListReturn(<<>>, 0, 0, 0, Nil)

EmptyPage(status, err) == ListReturn(<<>>, 0, 0, status, err)

\* the gather loop runs once more than there are units
GatherMore_OneMore(c) == Len(c.resps) < Len(c.ids) + 1

\* the gather loop runs while i < len(ids)
GatherMore(c) == Len(c.resps) < Len(c.ids)

\* returning from inside the gather loop as soon as a response has an error
GatherDone_OnError(c) ==
    (~GatherMore(c) /\ c.wg = 0) \/ FirstErr(c.resps, 1) # 0

\* returning after the first response, without the loop and without the wait
GatherDone_NoWait(c) == c.resps # <<>> \/ c.ids = <<>>

\* the gather loop has run len(ids) times and wg1.Wait() has passed
GatherDone(c) == ~GatherMore(c) /\ c.wg = 0

\* the items handed back: the summaries (GetProfiles) or the ignore rows
\* with their Item filled in (GetIgnored)
Items(c, sorted) ==
    [i \in 1..Len(sorted) |->
        IF c.op = "GetProfiles" THEN sorted[i].Item
        ELSE [ItemId |-> c.ids[i], Item |-> sorted[i].Item]]

\* the failed units skipped instead of failing the page
Finish_Partial(c) ==
    LET sorted == SortBySeq(c.resps)
        good == SelectSeq(sorted, LAMBDA r : r.Err = Nil)
    IN  ListReturn([i \in 1..Len(good) |-> good[i].Item], c.total,
                   GetPageCount(c.total, c.limit), StatusOK, Nil)

\* everything after wg1.Wait(): the error scan, the sort, the offset check
Finish(c) ==
    LET e == FirstErr(c.resps, 1)
        sorted == SortBySeq(c.resps)
    IN  IF e # 0
        THEN EmptyPage(c.resps[e].Status, c.resps[e].Err)
        ELSE IF c.op = "GetProfiles"
                /\ c.offset > GetMaxOffset(c.total, c.limit)
        THEN EmptyPage(StatusBadRequest, "offset would return an empty page")
        ELSE ListReturn(Items(c, sorted), c.total,
                        GetPageCount(c.total, c.limit), StatusOK, Nil)

IdleCall ==
    [op |-> "none", pc |-> "idle", siteId |-> 0, ids |-> <<>>, total |-> 0,
     rows |-> <<>>, limit |-> 0, offset |-> 0, spawned |-> 0, wg |-> 0,
     resps |-> <<>>,
     closed |-> FALSE, ret |-> NoReturn, profileId |-> 0]

Seqs == 0..(MaxLimit - 1)

NoUnit == IdleFrame

----------------------------------------------------------------------------
(* Initial state *)

EventIds == 1..MaxEvents

AllKeys ==
    {mcKey(ItemTypeProfile, s, p) : s \in Scopes,
                                   p \in ProfIds \cup {NewProfileId}}
    \cup {mcKey(ItemTypeEvent, s, e) : s \in Scopes, e \in EventIds}
    \cup {mcKey(ItemTypeMicrocosm, s, m) : s \in Scopes, m \in MicrocosmIds}
    \cup {DupeKey(Validate(m, MicrocosmSite(m.microcosmId), FALSE).m) :
             m \in InsertPayloads}

\* the profiles of the installation, each of a user of its own and under
\* the name suggested for the user: the last one belongs to the second site
InitProfiles ==
    [p \in ProfIds |->
        [site |-> IF p < NProfiles THEN 1 ELSE 2, user |-> p,
         name |-> SuggestProfileName(p), lastActive |-> 0, unread |-> 0,
         commentCount |-> 0, created |-> 0]]

Init ==
    /\ now = 0
    /\ cacheUp = TRUE
    /\ cache = [k \in AllKeys |-> NoEntry]
    /\ hist = [k \in AllKeys |-> HistNone]
    /\ profiles = InitProfiles
    /\ events = <<>>
    /\ th = [t \in Threads \cup Goroutines |-> IdleFrame]
    /\ call = IdleCall
    /\ units = [s \in Seqs |-> NoUnit]

\* the data store as the queries see it
Db == [profiles |-> profiles, events |-> events]

\* the cache operations of a step reach the cache in order
CacheIO(ops) ==
    /\ cache' = ApplyOps(cache, now, cacheUp, ops)
    /\ hist' = IF cacheUp THEN HistOps(hist, cache, now, cacheUp, ops)
               ELSE hist

----------------------------------------------------------------------------
(* Request threads *)

Fetchers == {"GetProfileSummary", "GetProfile", "GetUnreadHuddleCount",
             "GetEvent", "GetEventSummary"}

Mutations == {"EventInsert", "EventUpdate", "EventPatch", "EventDelete",
              "ProfileUpdate", "UpdateLastActive", "UpdateUnreadHuddleCount"}

\* the mutations of the comment count of a profile
Counters == {"IncrementProfileCommentCount", "DecrementProfileCommentCount"}

Running(f) == f.pc \notin {"idle", "ret"}

\* the steps of a fetcher after a cache hit
HitPcs == {"hitfetch", "hitedited", "hitattend"}

\* the steps at which a fetcher waits for a call of GetProfileSummary
LookupPcs == {"fetch", "edited", "hitfetch", "hitedited"}

\* the steps at which a fetcher waits for a call of IsAttending
AttendPcs == {"attend", "hitattend"}

\* the outcomes the store can produce at step pc of operation op
StepOutcomes(op, pc) ==
    IF op \in Fetchers \cup {"IsAttending"} THEN
        IF pc = "query" THEN DbOutcomes
        ELSE IF pc = "comment" THEN {"ok", "queryfail"}
        ELSE {"ok"}
    ELSE IF op = "PurgeCache" THEN {"ok"}
    ELSE IF pc = "commit" THEN {"ok", "commitfail"}
    ELSE IF pc \in {"token", "purge", "microcosm"} THEN {"ok"}
    ELSE IF pc = "patch" THEN {"ok", "queryfail"}
    ELSE IF pc = "user" THEN {"ok", "queryfail"}
    ELSE IF pc = "start" /\ op = "EventInsert" THEN {"ok", "invalid"}
    ELSE IF pc = "start" /\ op \in {"ProfileUpdate", "ProfileInsert"}
    THEN DbOutcomes \cup {"scanfail", "rowsfail"}
    ELSE IF pc \in {"suggest", "gravatar", "avatar", "count", "items"}
    THEN {"ok", "queryfail"}
    ELSE IF pc = "insert" /\ op = "ProfileInsert"
    THEN DbOutcomes \cup {"defaultsfail", "optionsfail"}
    ELSE IF pc = "start" /\ op = "EventUpdate"
    THEN DbOutcomes \cup {"attendfail"}
    ELSE IF pc = "start" /\ op = "EventPatch" THEN {"ok", "connfail"}
    ELSE IF pc = "start" /\ op = "UpdateLastActive"
    THEN DbOutcomes \cup {"beginfail"}
    ELSE IF pc = "start" /\ op = "EventDelete"
    THEN DbOutcomes \cup {"countfail"}
    ELSE IF pc = "insert" THEN DbOutcomes \cup {"countfail"}
    ELSE DbOutcomes

\* the outcomes the store can produce at the step the frame is at: those of
\* the call it is waiting for, when there is one
Outcomes(f) ==
    IF f.pc \in LookupPcs
    THEN StepOutcomes("GetProfileSummary",
                      IF f.sub = <<>> THEN "start" ELSE f.sub[1].pc)
    ELSE IF f.pc \in AttendPcs
    THEN StepOutcomes("IsAttending",
                      IF f.sub = <<>> THEN "start" ELSE f.sub[1].pc)
    ELSE IF f.op = "ProfileInsert" /\ f.pc = "update"
    THEN StepOutcomes("ProfileUpdate", Updating(f).pc)
    ELSE StepOutcomes(f.op, f.pc)

\* one step of the operation a frame is running
Step(f, ca, t, up, db, outcome) ==
    LET fetch ==
            IF f.op = "GetProfileSummary"
            THEN GetProfileSummary(f, ca, t, up, db, outcome)
            ELSE IF f.op = "GetProfile"
            THEN GetProfile(f, ca, t, up, db, outcome)
            ELSE IF f.op = "GetUnreadHuddleCount"
            THEN GetUnreadHuddleCount(f, ca, t, up, db, outcome)
            ELSE IF f.op = "GetEvent"
            THEN GetEvent(f, ca, t, up, db, outcome)
            ELSE GetEventSummary(f, ca, t, up, db, outcome)
    IN  IF f.op \in Fetchers THEN Result(fetch.f, fetch.ops, db)
        ELSE IF f.op = "EventInsert"
        THEN EventInsert(f, ca, t, up, db, outcome)
        ELSE IF f.op = "EventUpdate" THEN EventUpdate(f, db, outcome)
        ELSE IF f.op = "EventPatch" THEN EventPatch(f, db, outcome)
        ELSE IF f.op = "EventDelete" THEN EventDelete(f, db, outcome)
        ELSE IF f.op = "ProfileUpdate" THEN ProfileUpdate(f, db, outcome)
        ELSE IF f.op = "ProfileInsert" THEN ProfileInsert(f, t, db, outcome)
        ELSE IF f.op = "PurgeCache" THEN GoPurgeCache(f, db)
        ELSE IF f.op = "IncrementProfileCommentCount"
        THEN IncrementProfileCommentCount(f, db, outcome)
        ELSE IF f.op = "DecrementProfileCommentCount"
        THEN DecrementProfileCommentCount(f, db, outcome)
        ELSE IF f.op = "UpdateLastActive"
        THEN UpdateLastActive(f, db, outcome)
        ELSE IF f.op = "UpdateCommentCountForAllProfiles"
        THEN UpdateCommentCountForAllProfiles(f, db, outcome)
        ELSE UpdateUnreadHuddleCount(f, db, outcome)

\* the goroutine the step has started, if any, gets a thread of its own
Scheduled(t, f) ==
    IF f.pc = "ret" /\ f.sub # <<>>
    THEN [th EXCEPT ![t] = Looked(f), !["go"] = f.sub[1]]
    ELSE [th EXCEPT ![t] = f]

ThreadStep(t) ==
    /\ Running(th[t])
    /\ \E outcome \in Outcomes(th[t]) :
         LET r == Step(th[t], cache, now, cacheUp, Db, outcome)
         IN  /\ Len(r.db.events) <= MaxEvents
             /\ th' = Scheduled(t, r.f)
             /\ CacheIO(r.ops)
             /\ profiles' = r.db.profiles
             /\ events' = r.db.events
    /\ UNCHANGED <<now, cacheUp, call, units>>

\* the caller has taken the result
ThreadReturn(t) ==
    /\ th[t].pc = "ret"
    /\ th' = [th EXCEPT ![t] = IdleFrame]
    /\ UNCHANGED <<now, cacheUp, cache, hist, profiles, events, call, units>>

Start(t, f) ==
    /\ th[t].pc = "idle"
    /\ th' = [th EXCEPT ![t] = f]
    /\ UNCHANGED <<now, cacheUp, cache, hist, profiles, events, call, units>>

CallGetProfileSummary(t, ids) ==
    \E siteId \in Sites, id \in ids :
        Start(t, Frame("GetProfileSummary", siteId, id, 0, Nil))

CallGetProfile(t, ids) ==
    \E siteId \in Sites, id \in ids :
        Start(t, Frame("GetProfile", siteId, id, 0, Nil))

CallGetUnreadHuddleCount(t, ids) ==
    \E id \in ids :
        Start(t, Frame("GetUnreadHuddleCount", profiles[id].site, id, 0, Nil))

\* the names asked for: two that differ in the case of a letter, and one
\* that is too short
ProfileNames == {<<"a", "b">>, <<"A", "b">>, <<"a">>}

\* the receivers of ProfileType.Update, before the call gives them the
\* profile they are about
Receivers ==
    {Receiver(0, 0, name, commentCount, lastActive, 0) :
        name \in ProfileNames, commentCount \in 0..MaxCount,
        lastActive \in 0..MaxName}

\* the receivers that differ from a new profile in the name only
Renames == {m \in Receivers : m.commentCount = 0 /\ m.lastActive = 0}

\* the receivers with the comment count of a new profile
Uncommented == {m \in Receivers : m.commentCount = 0}

\* the receivers that ask for the name of the second profile, in capitals
Rivals ==
    {Receiver(0, 0, [SuggestProfileName(2) EXCEPT ![1] = "U"], 0, 0, 0)}

\* the receiver is the profile as it was loaded, with the fields of m
CallProfileUpdate(t, ids, receivers) ==
    \E id \in ids, m \in receivers :
        Start(t, Receiving("ProfileUpdate", profiles[id].site,
                           [m EXCEPT !.id = id, !.userId = profiles[id].user,
                                     !.created = profiles[id].created],
                           FALSE))

\* the user of the profiles a request asks to create
NewUserId == NewProfileId

\* the profiles a request may ask to create: a new one, an imported one that
\* comes with its history, and a new one that comes with a comment count
Newcomers ==
    {[m |-> Receiver(0, NewUserId, <<"a", "b", " ">>, 0, 0, 0),
      isImport |-> FALSE],
     [m |-> Receiver(0, NewUserId, <<"a", " ", "b">>, MaxCount, 1, 2),
      isImport |-> TRUE],
     [m |-> Receiver(0, NewUserId, <<"a", "b">>, MaxCount, 0, 0),
      isImport |-> FALSE]}

\* one profile is created, and the goroutine of the last one has ended
CallProfileInsert(t, siteId, newcomers) ==
    \E n \in newcomers :
        /\ Len(profiles) < NewProfileId
        /\ th["go"].pc = "idle"
        /\ \A u \in Threads : th[u].op # "ProfileInsert"
        /\ Start(t, Receiving("ProfileInsert", siteId, n.m, n.isImport))

\* the count stays within MaxCount of zero
CallIncrementProfileCommentCount(t, ids) ==
    \E id \in ids :
        /\ profiles[id].commentCount < MaxCount
        /\ Start(t, Frame("IncrementProfileCommentCount", profiles[id].site,
                          id, 0, Nil))

CallDecrementProfileCommentCount(t, ids) ==
    \E id \in ids :
        /\ profiles[id].commentCount > 0 - MaxCount
        /\ Start(t, Frame("DecrementProfileCommentCount", profiles[id].site,
                          id, 0, Nil))

\* the comments the flags table counts for the authors
Tallies(authors) == [authors -> 0..MaxCount]

CallUpdateCommentCountForAllProfiles(t, sites, tallies) ==
    \E siteId \in sites, tally \in tallies :
        Start(t, Frame("UpdateCommentCountForAllProfiles", siteId, 0, 0,
                       tally))

CallUpdateLastActive(t, ids) ==
    \E id \in ids, lastActive \in 0..MaxName :
        Start(t, Frame("UpdateLastActive", profiles[id].site, id, 0,
                       lastActive))

CallUpdateUnreadHuddleCount(t, ids) ==
    \E id \in ids, unread \in 0..MaxName :
        Start(t, Frame("UpdateUnreadHuddleCount", profiles[id].site, id, 0,
                       unread))

\* the viewers of an event: anonymous, or profile 1
Viewers == {0, 1}

CallGetEvent(t, viewers) ==
    \E siteId \in Sites, id \in EventIds, profileId \in viewers :
        Start(t, Frame("GetEvent", siteId, id, profileId, Nil))

CallGetEventSummary(t, viewers) ==
    \E siteId \in Sites, id \in EventIds, profileId \in viewers :
        Start(t, Frame("GetEventSummary", siteId, id, profileId, Nil))

\* an insert in flight holds an event_id of the sequence
Inserting == Cardinality({t \in Threads : th[t].op = "EventInsert"
                                           /\ Running(th[t])})

\* the dedup token of the payload is in the cache
Known(m, siteId) ==
    CacheGetInt64(cache, now, cacheUp,
                  DupeKey(Validate(m, siteId, FALSE).m)).ok

\* the events table has room for the row, unless the token answers the call
CallEventInsert(t, payloads) ==
    \E siteId \in Sites, m \in payloads :
        /\ Len(events) + Inserting < MaxEvents \/ Known(m, siteId)
        /\ Start(t, Frame("EventInsert", siteId, 0, m.createdById, m))

\* the event a mutation starts from: read by its caller beforehand
Loaded(id) == EventRecord("EventType", id, events[id])

Mutable(id) == id \in DOMAIN events /\ events[id].committed

\* the request bodies of an update: with and without a reason
Reasons == {<<>>, <<"r">>}

\* the receiver names as its editor one of editors (0: no editor)
CallEventUpdate(t, mids, editors) ==
    \E id \in EventIds, mid \in mids, reason \in Reasons,
       editedById \in editors :
        /\ Mutable(id)
        /\ Start(t, Frame("EventUpdate", EventSite(events[id]), id,
                          events[id].createdById,
                          [Payload(mid, <<"a">>, <<>>, 0, 0,
                                   events[id].createdById, reason)
                              EXCEPT !.editedById = editedById]))

\* the request bodies of a patch: one flag each, and a flag followed by a
\* path the switch does not know
Patches ==
    {<<[path |-> "/meta/flags/sticky", bool |-> TRUE]>>,
     <<[path |-> "/meta/flags/open", bool |-> TRUE]>>,
     <<[path |-> "/meta/flags/deleted", bool |-> TRUE]>>,
     <<[path |-> "/meta/flags/deleted", bool |-> FALSE]>>,
     <<[path |-> "/meta/flags/moderated", bool |-> TRUE]>>,
     <<[path |-> "/meta/other", bool |-> TRUE]>>,
     <<[path |-> "/meta/flags/sticky", bool |-> TRUE],
       [path |-> "/meta/other", bool |-> TRUE]>>}

\* the patches whose first path is one of paths
PatchesOf(paths) == {p \in Patches : p[1].path \in paths}

CallEventPatch(t, patchSet) ==
    \E id \in EventIds, patches \in patchSet :
        /\ Mutable(id)
        /\ Start(t, [Frame("EventPatch", EventSite(events[id]), id,
                           events[id].createdById, patches)
                        EXCEPT !.m = Loaded(id)])

CallEventDelete(t) ==
    \E id \in EventIds :
        /\ Mutable(id)
        /\ Start(t, [Frame("EventDelete", EventSite(events[id]), id, 0, Nil)
                        EXCEPT !.m = Loaded(id)])

\* time passes
Tick ==
    /\ now < MaxTicks * TickSecs
    /\ now' = now + TickSecs
    /\ UNCHANGED <<cacheUp, cache, hist, profiles, events, th, call, units>>

\* time passes between two requests
TickIdle == (\A t \in Threads : th[t].pc = "idle") /\ Tick

\* the cache backing service becomes unreachable, or reachable again
CacheFlip ==
    /\ cacheUp' = ~cacheUp
    /\ UNCHANGED <<now, cache, hist, profiles, events, th, call, units>>

\* another program stores a value of another type under a key of the cache
Foreign == [typ |-> "foreign", val |-> Nil, exp |-> now + mcTtl]

ForeignSet(keys) ==
    /\ cacheUp
    /\ \E k \in keys :
         /\ cache[k] # Foreign
         /\ cache' = [cache EXCEPT ![k] = Foreign]
    /\ UNCHANGED <<now, cacheUp, hist, profiles, events, th, call, units>>

----------------------------------------------------------------------------
(* Actions of the list request *)

InjSeqs(S, n) ==
    UNION {{q \in [1..k -> S] : \A i, j \in 1..k : i # j => q[i] # q[j]}
           : k \in 0..n}

\* the profiles the WHERE clause of GetProfiles can match: those of the
\* site, and the one a request is creating on the first site
\* the items GetIgnored's query can return: any ignored profile, which is
\* one that exists
Matches(op, siteId, among) ==
    IF op = "GetProfiles"
    THEN {p \in among : IF p \in DOMAIN profiles
                        THEN profiles[p].site = siteId ELSE siteId = 1}
    ELSE among \cap DOMAIN profiles

\* the ordered rows a statement sees when it runs: those of the matches
\* that are in the table
Seen(rows, db) == SelectSeq(rows, LAMBDA p : p \in DOMAIN db.profiles)

\* h.GetConnection() of GetProfiles / GetIgnored; rows are the ordered
\* matches of the request's WHERE clause.  GetProfiles goes on to count,
\* GetIgnored's one statement counts and pages.
ListStart(op, siteId, rows, limit, offset, outcome) ==
    LET c == [IdleCall EXCEPT !.op = op, !.siteId = siteId, !.rows = rows,
                              !.limit = limit, !.offset = offset]
    IN  IF outcome = "connfail"
        THEN [c EXCEPT !.pc = "returned", !.rows = <<>>,
                       !.ret = EmptyPage(StatusInternalServerError,
                                         ConnErr)]
        ELSE [c EXCEPT !.pc = IF op = "GetProfiles" THEN "count"
                              ELSE "page"]

\* GetProfiles / GetIgnored asked of some sites only, with matches among
\* some profiles only
ListCallOn(sites, among) ==
    /\ call.pc = "idle"
    /\ \E op \in {"GetProfiles", "GetIgnored"}, siteId \in sites,
          limit \in 1..MaxLimit, offset \in 0..MaxOffsetArg,
          outcome \in {"ok", "connfail"} :
         \E rows \in InjSeqs(Matches(op, siteId, among), MaxRows) :
            call' = ListStart(op, siteId, rows, limit, offset, outcome)
    /\ UNCHANGED <<now, cacheUp, cache, hist, profiles, events, th, units>>

\* SELECT COUNT(*) of GetProfiles, a statement of its own
Counted(c, db, outcome) ==
    IF outcome = "queryfail"
    THEN [c EXCEPT !.pc = "returned", !.rows = <<>>,
                   !.ret = EmptyPage(StatusInternalServerError,
                                     "Database query failed")]
    ELSE [c EXCEPT !.total = Len(Seen(c.rows, db)), !.pc = "page"]

ListCount ==
    /\ call.pc = "count"
    /\ \E outcome \in {"ok", "queryfail"} : call' = Counted(call, Db, outcome)
    /\ UNCHANGED <<now, cacheUp, cache, hist, profiles, events, th, units>>

\* the statement with LIMIT and OFFSET and the loop over its rows, up to
\* the fan-out; GetIgnored scans the total from the rows, and checks the
\* offset here
Paged(c, db, outcome) ==
    LET seen == Seen(c.rows, db)
        ids == Page(seen, c.limit, c.offset)
        total == IF c.op = "GetProfiles" THEN c.total
                 ELSE IF ids = <<>> THEN 0 ELSE Len(seen)
        d == [c EXCEPT !.rows = <<>>]
        e == [d EXCEPT !.ids = ids, !.total = total]
    IN  IF outcome = "queryfail"
        THEN [d EXCEPT !.pc = "returned",
                       !.ret = EmptyPage(StatusInternalServerError,
                                         "Database query failed")]
        ELSE IF outcome = "scanfail" /\ ids # <<>>
        THEN [d EXCEPT !.pc = "returned",
                       !.ret = EmptyPage(StatusInternalServerError,
                                         "Row parsing error")]
        ELSE IF outcome = "rowsfail"
        THEN [d EXCEPT !.pc = "returned",
                       !.ret = EmptyPage(StatusInternalServerError,
                                         "Error fetching rows")]
        ELSE IF c.op = "GetIgnored"
                /\ c.offset > GetMaxOffset(total, c.limit)
        THEN [e EXCEPT !.pc = "returned",
                       !.ret = EmptyPage(StatusBadRequest,
                                    "offset would return an empty page")]
        ELSE [e EXCEPT !.pc = IF ids = <<>> THEN "gather" ELSE "spawn"]

\* the outcomes of the page statement: a row can fail to scan when there
\* is one
PageOutcomes(c, db) ==
    {"ok", "queryfail", "rowsfail"}
    \cup (IF Page(Seen(c.rows, db), c.limit, c.offset) # <<>>
          THEN {"scanfail"} ELSE {})

ListPage ==
    /\ call.pc = "page"
    /\ call.op \in {"GetProfiles", "GetIgnored"}
    /\ \E outcome \in PageOutcomes(call, Db) :
         call' = Paged(call, Db, outcome)
    /\ UNCHANGED <<now, cacheUp, cache, hist, profiles, events, th, units>>

\* go HandleProfileSummaryRequest(siteId, id, seq, req); wg1.Add(1)
Spawn ==
    /\ call.pc = "spawn"
    /\ LET seq == call.spawned
       IN  /\ units' = [units EXCEPT ![seq] =
                 Frame("GetProfileSummary", call.siteId,
                       call.ids[seq + 1], 0, Nil)]
           /\ call' = [call EXCEPT
                 !.spawned = seq + 1,
                 !.wg = call.wg + 1,
                 !.pc = IF seq + 1 = Len(call.ids) THEN "gather"
                        ELSE "spawn"]
    /\ UNCHANGED <<now, cacheUp, cache, hist, profiles, events, th>>

\* a step of GetProfileSummary inside a unit
UnitStep(seq) ==
    /\ units[seq].pc \in {"start", "query", "set"}
    /\ \E outcome \in DbOutcomes :
         LET r == GetProfileSummary(units[seq], cache, now, cacheUp,
                                    Db, outcome)
         IN  /\ units' = [units EXCEPT ![seq] = r.f]
             /\ CacheIO(r.ops)
    /\ UNCHANGED <<now, cacheUp, profiles, events, th, call>>

\* out <- response meets resp := <-req; wg1.Done()
Recv(seq) ==
    /\ call.pc = "gather"
    /\ GatherMore(call)
    /\ ~call.closed
    /\ units[seq].pc = "ret"
    /\ units' = [units EXCEPT ![seq].pc = "done"]
    /\ call' = [call EXCEPT !.resps = Append(call.resps,
                                             Response(units[seq], seq)),
                            !.wg = call.wg - 1]
    /\ UNCHANGED <<now, cacheUp, cache, hist, profiles, events, th>>

\* wg1.Wait(), the scan, the sort, the return and the deferred close(req)
ListFinish ==
    /\ call.pc = "gather"
    /\ GatherDone(call)
    /\ call' = [call EXCEPT !.pc = "returned", !.closed = TRUE,
                            !.ret = Finish(call)]
    /\ UNCHANGED <<now, cacheUp, cache, hist, profiles, events, th, units>>

\* the caller is done with the result; the next list request may start
ListDone ==
    /\ call.pc = "returned"
    /\ \A s \in Seqs : units[s].pc \in {"idle", "done"}
    /\ call' = IdleCall
    /\ units' = [s \in Seqs |-> NoUnit]
    /\ UNCHANGED <<now, cacheUp, cache, hist, profiles, events, th>>

NextAgg ==
    \/ ListCallOn({1}, ProfIds)
    \/ ListCount
    \/ ListPage
    \/ Spawn
    \/ \E seq \in Seqs : UnitStep(seq)
    \/ \E seq \in Seqs : Recv(seq)
    \/ ListFinish
    \/ ListDone

SpecAgg == Init /\ [][NextAgg]_vars

----------------------------------------------------------------------------
(* Properties of the fan-out/gather *)

Returned == call.pc = "returned"

\* the list request went through the fan-out and the gather
Gathered == Returned /\ call.closed

UnitFailed == \E i \in 1..Len(call.resps) : call.resps[i].Err # Nil

UnitSucceeded == \E i \in 1..Len(call.resps) : call.resps[i].Err = Nil

\* the summary carried by the item at position i of the returned list
SummaryAt(i) ==
    IF call.op = "GetProfiles" THEN call.ret.items[i]
    ELSE call.ret.items[i].Item

\* C1: when no unit fails, the returned list holds at position i the summary
\* fetched by the unit of the ID at input position i, whatever the order in
\* which the units completed.
C1_OrderPreserved ==
    (Returned /\ call.ret.status = StatusOK) =>
        \A i \in 1..Len(call.ids) :
            /\ i \in DOMAIN call.ret.items
            /\ units[i - 1].id = call.ids[i]
            /\ SummaryAt(i) = units[i - 1].m
            /\ SummaryAt(i).id = call.ids[i]

\* a successful page whose units completed out of input order
C1_Witness ==
    /\ Returned /\ call.ret.status = StatusOK
    /\ Len(call.ret.items) >= 2
    /\ call.resps[1].Seq # 0

\* C2: all-or-nothing: as many items as IDs when no unit failed and the
\* offset check passed; an empty list, total 0, pages 0 and an error when a
\* unit failed; never a partial page.
C2_AllOrNothing ==
    Gathered =>
        /\ UnitFailed =>
              /\ call.ret.items = <<>>
              /\ call.ret.total = 0 /\ call.ret.pages = 0
              /\ call.ret.err # Nil
        /\ (~UnitFailed /\ call.offset <= GetMaxOffset(call.total, call.limit))
              => /\ Len(call.ret.items) = Len(call.ids)
                 /\ call.ret.err = Nil
        /\ Len(call.ret.items) \in {0, Len(call.ids)}

\* a page on which one unit failed and another succeeded
C2_Witness == Gathered /\ UnitFailed /\ UnitSucceeded

\* C9: the response is produced only after every spawned unit has delivered
\* its result; a failing unit does not make the request return while other
\* units are running.
C9_AllDelivered ==
    Returned =>
        /\ \A s \in Seqs : units[s].pc \in {"idle", "done"}
        /\ call.closed => Len(call.resps) = Len(call.ids)

\* the failing unit delivered first, the others were still awaited
C9_Witness ==
    /\ Gathered /\ Len(call.ids) >= 2
    /\ call.resps[1].Err # Nil
    /\ call.resps[2].Err = Nil

\* C10: after a page failed, the entries written by the units that
\* succeeded are still cached: GetProfileSummary for such an id and the
\* same site is answered from the cache with the same summary.
C10_SideEffectsKept ==
    (Gathered /\ call.ret.err # Nil) =>
        \A i \in 1..Len(call.resps) :
            call.resps[i].Err = Nil =>
                LET id == call.ids[call.resps[i].Seq + 1]
                    r == GetProfileSummary(
                            Frame("GetProfileSummary", call.siteId, id, 0,
                                  Nil),
                            cache, now, cacheUp, Db, "ok")
                IN  /\ r.f.pc = "ret"
                    /\ r.f.status = StatusOK
                    /\ r.f.m = call.resps[i].Item

\* a failed GetProfiles page with a unit that loaded its summary
C10_Witness ==
    /\ Gathered /\ call.op = "GetProfiles" /\ call.ret.err # Nil
    /\ \E s \in Seqs : units[s].pc = "done" /\ units[s].err = Nil

----------------------------------------------------------------------------
(* Specifications of one request thread *)

\* the profile the requests of a thread are about, and the events it creates
Subjects == {1}

Authored == {m \in InsertPayloads : m.createdById = 1}

Drafts == {m \in Authored : m.title = <<"a">>}

\* the mutations, one after the other
NextMut ==
    \/ CallProfileUpdate("t1", Subjects, Uncommented)
    \/ CallUpdateLastActive("t1", Subjects)
    \/ CallUpdateUnreadHuddleCount("t1", Subjects)
    \/ CallEventInsert("t1", Drafts)
    \/ CallEventUpdate("t1", {1}, {1})
    \/ CallEventPatch("t1", PatchesOf({"/meta/flags/open",
                                       "/meta/flags/deleted",
                                       "/meta/other"}))
    \/ CallEventDelete("t1")
    \/ ThreadStep("t1")
    \/ ThreadReturn("t1")

SpecMut == Init /\ [][NextMut]_vars

----------------------------------------------------------------------------
(* Purges and commits *)

IsPurge(ops) == \E i \in DOMAIN ops : ops[i].op = "purge"

\* the steps the operation of thread t can take next
StepsOf(t) ==
    {Step(th[t], cache, now, cacheUp, Db, o) : o \in Outcomes(th[t])}

\* in the operations ops, a step that purges runs on a committed
\* transaction, and the step that returns from a committed transaction is
\* the one that purges
PurgeAfterCommit(ops) ==
    \A t \in Threads :
        (Running(th[t]) /\ th[t].op \in ops) =>
            \A r \in StepsOf(t) :
                /\ IsPurge(r.ops) => th[t].tx.state = "committed"
                /\ (r.f.pc = "ret" /\ r.f.tx.state = "committed")
                       => IsPurge(r.ops)

\* C8: in every mutation path that purges, the purge is issued after the
\* transaction has committed and before the operation returns; no purge is
\* issued before the commit.
C8_PurgeAfterCommit == PurgeAfterCommit(Mutations)

\* the six mutations that commit before they purge
C8_CommitFirst ==
    PurgeAfterCommit(Mutations \ {"UpdateUnreadHuddleCount"})

----------------------------------------------------------------------------
(* The cache as the fetchers and mutations of one thread use it *)

NextCache ==
    \/ CallGetProfileSummary("t1", Subjects)
    \/ CallGetProfile("t1", Subjects)
    \/ CallGetUnreadHuddleCount("t1", Subjects)
    \/ CallProfileUpdate("t1", Subjects, Renames \cup Rivals)
    \/ ThreadStep("t1")
    \/ ThreadReturn("t1")
    \/ Tick

SpecCache == Init /\ [][NextCache]_vars

\* the types a typed get can ask for
Types == {"ProfileSummaryType", "ProfileType", "EventType",
          "EventSummaryType", "int64", "int64slice"}

NotFound(k) == \A typ \in Types : ~CacheGet(cache, now, cacheUp, k, typ).ok

\* ProfileType.Update, which ends with PurgeCache(kind, id), has just
\* returned
Purged(f, kind, id) ==
    /\ f.pc = "ret" /\ f.err = Nil /\ f.tx.state = "committed"
    /\ f.op = "ProfileUpdate" /\ kind = ItemTypeProfile /\ id = f.id

\* C3: after PurgeCache(kind, id) has run, a get for each scope of that
\* (kind, id) reports not found, though the TTL of the entries has not
\* elapsed, until some later set for that key.
C3_PurgeAllScopes ==
    /\ \A id \in ProfIds :
          Purged(th["t1"], ItemTypeProfile, id) =>
              \A s \in Scopes : NotFound(mcKey(ItemTypeProfile, s, id))
    /\ \A k \in DOMAIN hist : hist[k].op = "purge" => NotFound(k)

\* ProfileType.Update has just purged the Detail, Summary and Counts entries
\* of its profile, none of which had expired
C3_Witness ==
    /\ Purged(th["t1"], ItemTypeProfile, th["t1"].id)
    /\ \A s \in {"CacheDetail", "CacheSummary", "CacheCounts"} :
          LET k == mcKey(ItemTypeProfile, s, th["t1"].id)
          IN  hist[k].op = "purge" /\ now < hist[k].exp /\ now > 0

\* C4: a set followed by a get before the TTL elapses, with no purge in
\* between, returns found and the value of the most recent set for the key.
C4_SetThenGet ==
    \A k \in DOMAIN hist :
        (hist[k].op = "set" /\ now < hist[k].exp) =>
            LET got == CacheGet(cache, now, cacheUp, k, hist[k].val.typ)
            IN  got.ok /\ got.val = hist[k].val.val

\* the summary of profile 1 was set, set again with another name after an
\* update, and is read before the second TTL elapses but after the first
C4_Witness ==
    LET k == mcKey(ItemTypeProfile, "CacheSummary", 1)
    IN  /\ hist[k].op = "set" /\ hist[k].val.val.name = <<"A", "b">>
        /\ hist[k].exp > mcTtl /\ now >= mcTtl /\ now < hist[k].exp
        /\ th["t1"].op = "GetProfileSummary" /\ th["t1"].pc = "ret"
        /\ th["t1"].status = StatusOK /\ th["t1"].m.name = <<"A", "b">>

----------------------------------------------------------------------------
(* Tenants *)

\* events of the first site's microcosm, written by a profile of any site
Postings == {m \in InsertPayloads : m.title = <<"a">> /\ m.microcosmId = 1}

NextTenant ==
    \/ CallGetProfileSummary("t1", ProfIds)
    \/ CallGetProfile("t1", Subjects)
    \/ CallEventInsert("t1", Postings)
    \/ CallGetEvent("t1", {0})
    \/ CallGetEventSummary("t1", {0})
    \/ ThreadStep("t1")
    \/ ThreadReturn("t1")

SpecTenant == Init /\ [][NextTenant]_vars

\* the fetcher of frame f has found in the cache a record of another site
\* than the one of the call
CachedOther(f) ==
    \/ /\ f.op = "GetProfileSummary" /\ f.pc = "start" /\ f.id # 0
       /\ LET hit == CacheGet(cache, now, cacheUp,
                              mcKey(ItemTypeProfile, "CacheSummary", f.id),
                              "ProfileSummaryType")
          IN  hit.ok /\ hit.val.siteId # f.siteId
    \/ /\ f.op = "GetProfile" /\ f.pc = "start" /\ f.id # 0
       /\ LET hit == CacheGet(cache, now, cacheUp,
                              mcKey(ItemTypeProfile, "CacheDetail", f.id),
                              "ProfileType")
          IN  hit.ok /\ hit.val.siteId # f.siteId
    \/ /\ f.op \in {"GetEvent", "GetEventSummary"}
       /\ f.pc \in HitPcs
       /\ EventSite(f.m) # f.siteId

\* the fetchers named answer NotFound, or the failure of the store, and
\* return no record whenever they return after such a hit
NoCrossTenant(ops) ==
    \A t \in Threads :
        (th[t].op \in ops /\ CachedOther(th[t]) /\ th'[t].pc = "ret") =>
            /\ th'[t].m = NoRecord
            /\ th'[t].status \in {StatusNotFound, StatusInternalServerError}

\* C5: no cached Detail or Summary record is returned to a caller of another
\* tenant: GetProfile, GetProfileSummary, GetEvent and GetEventSummary
\* answer NotFound instead of returning the record.
C5_NoCrossTenant ==
    [][NoCrossTenant({"GetProfile", "GetProfileSummary", "GetEvent",
                      "GetEventSummary"})]_vars

\* the two profile fetchers compare the site of a cached record
C5_ProfilesChecked ==
    [][NoCrossTenant({"GetProfile", "GetProfileSummary"})]_vars

\* a profile fetcher is about to answer from a cached record of another site
C5_ProfileHit ==
    \E t \in Threads :
        th[t].op \in {"GetProfile", "GetProfileSummary"}
            /\ CachedOther(th[t])

----------------------------------------------------------------------------
(* The dedup token of EventType.Insert *)

\* inserts made one after the other, the clock moving between them
NextInsert ==
    \/ CallEventInsert("t1", Authored)
    \/ ThreadStep("t1")
    \/ ThreadReturn("t1")
    \/ TickIdle

SpecInsert == Init /\ [][NextInsert]_vars

\* the fingerprint of a stored event
RowKey(row) == DupeKey(row)

\* the committed rows with the fingerprint key
RowsOf(key) ==
    {i \in DOMAIN events : events[i].committed /\ RowKey(events[i]) = key}

\* the rows of RowsOf(key) created less than the dedup TTL ago
Fresh(key) == {i \in RowsOf(key) : now - events[i].created < DupeTtl}

\* C6: two Insert calls with the same fingerprint made one after the other
\* within the dedup TTL return the same event ID and create exactly one
\* event row; a call made after the token has expired creates a new row
\* with a new ID.
C6_Dedup ==
    /\ \A i, j \in DOMAIN events :
          (i < j /\ events[i].committed /\ RowKey(events[i]) = RowKey(events[j]))
              => events[j].created - events[i].created >= DupeTtl
    /\ \A t \in Threads :
          (th[t].op = "EventInsert" /\ th[t].pc = "ret" /\ th[t].err = Nil)
              => Fresh(DupeKey(th[t].m)) = {th[t].m.id}

\* two rows hold the same event, the second written after the token of the
\* first expired; a later Insert of that event, within the TTL of the
\* second token, has returned the ID of the second row without writing one
C6_Witness ==
    /\ th["t1"].op = "EventInsert" /\ th["t1"].pc = "ret"
    /\ th["t1"].err = Nil /\ th["t1"].tx.state = "none"
    /\ th["t1"].m.id = 2
    /\ RowsOf(DupeKey(th["t1"].m)) = {1, 2}
    /\ now > events[2].created

----------------------------------------------------------------------------
(* Failures of the cache *)

\* the event created while the cache fails, and the keys looked up
Draft == {m \in Drafts : m.microcosmId = 1}

SubjectKeys ==
    {mcKey(ItemTypeProfile, s, p) : s \in {"CacheSummary", "CacheCounts"},
                                    p \in Subjects}
    \cup {DupeKey(Validate(m, 1, FALSE).m) : m \in Draft}

NextFault ==
    \/ CallGetProfileSummary("t1", Subjects)
    \/ CallGetUnreadHuddleCount("t1", Subjects)
    \/ CallEventInsert("t1", Draft)
    \/ ThreadStep("t1")
    \/ ThreadReturn("t1")
    \/ CacheFlip
    \/ ForeignSet(SubjectKeys)

SpecFault == Init /\ [][NextFault]_vars

\* the cache without what a failure hides: nothing when the service is
\* unreachable, no entry of a foreign type otherwise
Sound(ca) ==
    [k \in DOMAIN ca |->
        IF ~cacheUp \/ ca[k].typ = "foreign" THEN NoEntry ELSE ca[k]]

\* C7: a failure of the cache is never visible to callers: a read reports a
\* miss, a write or purge is a no-op, and the fetcher or mutation that used
\* the cache goes on and returns as it would with those entries absent.
C7_FailOpen ==
    \A t \in Threads :
        Running(th[t]) =>
            \A o \in Outcomes(th[t]) :
                LET r == Step(th[t], cache, now, cacheUp, Db, o)
                    e == Step(th[t], Sound(cache), now, TRUE, Db, o)
                IN  /\ r.f = e.f
                    /\ r.db = e.db
                    /\ ~cacheUp => ApplyOps(cache, now, cacheUp, r.ops) = cache

\* GetUnreadHuddleCount looks up a count that is in the cache while the
\* service is unreachable
C7_Witness ==
    /\ ~cacheUp
    /\ th["t1"].op = "GetUnreadHuddleCount" /\ th["t1"].pc = "start"
    /\ LET e == cache[mcKey(ItemTypeProfile, "CacheCounts", th["t1"].id)]
       IN  e.typ = "int64" /\ now < e.exp

\* GetProfileSummary looks up a key that holds a value of another type
C7_WitnessForeign ==
    /\ cacheUp
    /\ th["t1"].op = "GetProfileSummary" /\ th["t1"].pc = "start"
    /\ cache[mcKey(ItemTypeProfile, "CacheSummary", th["t1"].id)] = Foreign

----------------------------------------------------------------------------
(* The paginator on its own: every total and limit of a bounded range *)

MaxTotal == 25

MaxPageLimit == 10

\* the total and limit a list request computes its pages from
InitPage ==
    /\ now = 0
    /\ cacheUp = TRUE
    /\ cache = [k \in AllKeys |-> NoEntry]
    /\ hist = [k \in AllKeys |-> HistNone]
    /\ profiles = InitProfiles
    /\ events = <<>>
    /\ th = [t \in Threads \cup Goroutines |-> IdleFrame]
    /\ units = [s \in Seqs |-> NoUnit]
    /\ \E total \in 0..MaxTotal, limit \in 1..MaxPageLimit :
          call = [IdleCall EXCEPT !.op = "Paginate", !.pc = "page",
                                  !.total = total, !.limit = limit]

\* pages := GetPageCount(total, limit); maxOffset := GetMaxOffset(total, limit)
Paginate ==
    /\ call.op = "Paginate" /\ call.pc = "page"
    /\ call' = [call EXCEPT
                   !.pc = "returned",
                   !.ret = [pages |-> GetPageCount(call.total, call.limit),
                            maxOffset |-> GetMaxOffset(call.total,
                                                       call.limit)]]
    /\ UNCHANGED <<now, cacheUp, cache, hist, profiles, events, th, units>>

NextPage == Paginate

SpecPage == InitPage /\ [][NextPage]_vars

Paginated == call.op = "Paginate" /\ call.pc = "returned"

\* C11: for every total >= 0 and limit > 0 the paginator returns
\* pages = ceil(total / limit), the least number of pages of limit items
\* that hold total items, and maxOffset = max(0, (pages - 1) * limit);
\* total 25 and limit 10 give 3 pages and maxOffset 20, total 0 and
\* limit 10 give 0 pages and maxOffset 0.
C11_Paginator ==
    Paginated =>
        LET total == call.total
            limit == call.limit
            pages == call.ret.pages
            maxOffset == call.ret.maxOffset
        IN  /\ pages >= 0
            /\ pages * limit >= total
            /\ (pages - 1) * limit < total
            /\ maxOffset = IF (pages - 1) * limit > 0
                           THEN (pages - 1) * limit ELSE 0
            /\ (total = 25 /\ limit = 10) => (pages = 3 /\ maxOffset = 20)
            /\ (total = 0 /\ limit = 10) => (pages = 0 /\ maxOffset = 0)

C11_Witness ==
    /\ Paginated
    /\ call.total = 25 /\ call.limit = 10
    /\ call.ret.pages = 3 /\ call.ret.maxOffset = 20

C11_WitnessEmpty ==
    /\ Paginated
    /\ call.total = 0 /\ call.limit = 10
    /\ call.ret.pages = 0 /\ call.ret.maxOffset = 0

----------------------------------------------------------------------------
(* GetEvents: the page query, one GetEventSummary per row, the offset check *)

\* an installation that already holds n events, all of the first
\* microcosm, created by the first profile
InitStored(n) ==
    /\ now = 0
    /\ cacheUp = TRUE
    /\ cache = [k \in AllKeys |-> NoEntry]
    /\ hist = [k \in AllKeys |-> HistNone]
    /\ profiles = InitProfiles
    /\ events = [i \in 1..n |->
                    [EventRow(Validate(Payload(1, <<"a">>, <<>>, 0, 0, 1,
                                               <<>>), 1, FALSE).m, 0)
                        EXCEPT !.committed = TRUE]]
    /\ th = [t \in Threads \cup Goroutines |-> IdleFrame]
    /\ call = IdleCall
    /\ units = [s \in Seqs |-> NoUnit]

\* as many events as there are titles
InitEvents == InitStored(Cardinality(Titles))

\* a single event
InitEvent == InitStored(Cardinality(Subjects))

\* the events the page query can match: WHERE f.site_id = $1 ...
\* AND f.item_is_deleted IS NOT TRUE
EventMatches(siteId) ==
    {id \in DOMAIN events : EventRowVisible(Db, siteId, id)}

\* GetEvents up to the row loop: the connection and the page query;
\* COUNT(*) OVER() is scanned from the rows, so no row leaves total at 0
EventsStart(siteId, profileId, rows, limit, offset, outcome) ==
    LET ids == Page(rows, limit, offset)
        total == IF ids = <<>> THEN 0 ELSE Len(rows)
        c == [IdleCall EXCEPT !.op = "GetEvents", !.siteId = siteId,
                              !.profileId = profileId, !.ids = ids,
                              !.total = total, !.limit = limit,
                              !.offset = offset]
    IN  IF outcome = "connfail"
        THEN [c EXCEPT !.pc = "returned",
                       !.ret = EmptyPage(StatusInternalServerError,
                                         ConnErr)]
        ELSE IF outcome = "queryfail"
        THEN [c EXCEPT !.pc = "returned",
                       !.ret = EmptyPage(StatusInternalServerError,
                                         "Database query failed: query failed")]
        ELSE [c EXCEPT !.pc = "rows"]

EventsCall(t, sites, viewers) ==
    /\ call.pc = "idle"
    /\ th[t].pc = "idle"
    /\ \E siteId \in sites, profileId \in viewers, limit \in 1..MaxLimit,
          offset \in 0..MaxOffsetArg, outcome \in DbOutcomes :
         \E rows \in InjSeqs(EventMatches(siteId), MaxRows) :
            call' = EventsStart(siteId, profileId, rows, limit, offset,
                                outcome)
    /\ UNCHANGED <<now, cacheUp, cache, hist, profiles, events, th, units>>

\* rows.Next(), rows.Scan and the call of GetEventSummary(siteId, id,
\* profileId); a row that cannot be scanned ends the request with 500
\* before GetEventSummary is called
EventsRow(t) ==
    /\ call.op = "GetEvents" /\ call.pc = "rows"
    /\ th[t].pc = "idle"
    /\ call.spawned < Len(call.ids)
    /\ \E outcome \in {"ok", "scanfail"} :
         IF outcome = "scanfail"
         THEN /\ call' = [call EXCEPT
                             !.pc = "returned",
                             !.ret = EmptyPage(StatusInternalServerError,
                                     "Row parsing error: scan failed")]
              /\ th' = th
         ELSE /\ th' = [th EXCEPT ![t] =
                           Frame("GetEventSummary", call.siteId,
                                 call.ids[call.spawned + 1],
                                 call.profileId, Nil)]
              /\ call' = [call EXCEPT !.spawned = call.spawned + 1]
    /\ UNCHANGED <<now, cacheUp, cache, hist, profiles, events, units>>

\* GetEventSummary has returned: its error ends the request, otherwise
\* m.Meta.Flags.Attending = isAttending; ems = append(ems, m)
EventsAppend(t) ==
    /\ call.op = "GetEvents" /\ call.pc = "rows"
    /\ th[t].op = "GetEventSummary" /\ th[t].pc = "ret"
    /\ LET seq == call.spawned - 1
           isAttending == InSeq(call.profileId, AttendeeIds(th[t].id))
           got == IF th[t].err = Nil
                  THEN [th[t] EXCEPT !.m.attending = isAttending]
                  ELSE th[t]
           resps == Append(call.resps, Response(got, seq))
       IN  call' = IF th[t].err # Nil
                   THEN [call EXCEPT !.pc = "returned", !.resps = resps,
                                     !.ret = EmptyPage(th[t].status,
                                                       th[t].err)]
                   ELSE [call EXCEPT !.resps = resps]
    /\ th' = [th EXCEPT ![t] = IdleFrame]
    /\ UNCHANGED <<now, cacheUp, cache, hist, profiles, events, units>>

\* the page returned whatever the offset
EventsFinish_Unchecked(c, outcome) ==
    IF outcome = "queryfail"
    THEN EmptyPage(StatusInternalServerError,
                   "Error fetching rows: rows failed")
    ELSE ListReturn([i \in 1..Len(c.resps) |-> c.resps[i].Item], c.total,
                    GetPageCount(c.total, c.limit), StatusOK, Nil)

\* everything after the row loop: rows.Err(), the pages, the offset check
EventsFinish(c, outcome) ==
    IF outcome = "queryfail"
    THEN EmptyPage(StatusInternalServerError,
                   "Error fetching rows: rows failed")
    ELSE IF c.offset > GetMaxOffset(c.total, c.limit)
    THEN EmptyPage(StatusBadRequest, "offset would return an empty page")
    ELSE ListReturn([i \in 1..Len(c.resps) |-> c.resps[i].Item], c.total,
                    GetPageCount(c.total, c.limit), StatusOK, Nil)

EventsReturn(t) ==
    /\ call.op = "GetEvents" /\ call.pc = "rows"
    /\ th[t].pc = "idle"
    /\ call.spawned = Len(call.ids)
    /\ \E outcome \in {"ok", "queryfail"} :
         call' = [call EXCEPT !.pc = "returned",
                              !.ret = EventsFinish(call, outcome)]
    /\ UNCHANGED <<now, cacheUp, cache, hist, profiles, events, th, units>>

\* one request of the three list operations, on the site that holds profiles
\* and events
NextList ==
    \/ ListCallOn({1}, ProfIds)
    \/ ListCount
    \/ ListPage
    \/ Spawn
    \/ \E seq \in Seqs : UnitStep(seq)
    \/ \E seq \in Seqs : Recv(seq)
    \/ ListFinish
    \/ EventsCall("t1", {1}, {0})
    \/ EventsRow("t1")
    \/ ThreadStep("t1")
    \/ EventsAppend("t1")
    \/ EventsReturn("t1")

SpecList == InitEvents /\ [][NextList]_vars

----------------------------------------------------------------------------
(* Properties of the offset check *)

ListOps == {"GetEvents", "GetProfiles", "GetIgnored"}

\* the last offset at which a page starts: the largest multiple of limit
\* below total, 0 when there is no record
OffsetLimit ==
    IF call.total = 0 THEN 0
    ELSE ((call.total - 1) \div call.limit) * call.limit

\* the connection, the count or page query, the scan of a row or the row
\* cursor failed
StoreFailed ==
    call.ret.err \in {ConnErr, "Database query failed", "Row parsing error",
                      "Error fetching rows",
                      "Database query failed: query failed",
                      "Row parsing error: scan failed",
                      "Error fetching rows: rows failed"}

OffsetRejected ==
    /\ call.ret.status = StatusBadRequest
    /\ call.ret.err = "offset would return an empty page"
    /\ call.ret.items = <<>>
    /\ call.ret.total = 0 /\ call.ret.pages = 0

\* C12: a list request (GetEvents, GetProfiles, GetIgnored) that reaches
\* the offset check, no store access and no unit having failed before it,
\* with offset > maxOffset fails with 400 "offset would return an empty
\* page", no items, total 0 and pages 0; a request with offset <= maxOffset
\* is never answered 400; when total is 0 only offset 0 is accepted.
C12_OffsetCheck ==
    (Returned /\ call.op \in ListOps) =>
        /\ (call.offset > OffsetLimit /\ ~StoreFailed /\ ~UnitFailed)
              => OffsetRejected
        /\ call.ret.status = StatusBadRequest
              => (OffsetRejected /\ call.offset > OffsetLimit)
        /\ call.ret.status = StatusOK => call.offset <= OffsetLimit
        /\ (call.total = 0 /\ call.ret.status = StatusOK) => call.offset = 0

\* GetEvents rejecting an offset inside the records but past the last page
C12_Witness ==
    /\ Returned /\ call.op = "GetEvents"
    /\ OffsetRejected
    /\ call.ids # <<>> /\ Len(call.resps) = Len(call.ids)

\* GetProfiles rejecting the offset after its units succeeded
C12_WitnessProfiles ==
    /\ Gathered /\ call.op = "GetProfiles"
    /\ OffsetRejected
    /\ call.ids # <<>>

\* GetIgnored rejecting the offset before the fan-out
C12_WitnessIgnored ==
    /\ Returned /\ call.op = "GetIgnored"
    /\ OffsetRejected
    /\ call.ids # <<>> /\ call.resps = <<>>

\* no record: offset 0 accepted with an empty page
C12_WitnessNone ==
    /\ Returned /\ call.op \in ListOps
    /\ call.total = 0 /\ call.offset = 0
    /\ call.ret.status = StatusOK

\* C12 as stated: whenever the request's own queries answered and
\* offset > maxOffset, the request fails with the 400 of the offset check,
\* whatever its units did.
C12_AlwaysRejected ==
    (Returned /\ call.op \in ListOps /\ (StoreFailed => UnitFailed)
        /\ call.offset > OffsetLimit) => OffsetRejected

----------------------------------------------------------------------------
(* The scoped purges of UpdateLastActive and updateUnreadHuddleCount *)

\* the profiles whose summaries are read while the subject is mutated
Neighbours == Subjects \cup {NProfiles}

\* the receivers that differ from a new profile in the comment count only
Recounts == {m \in Receivers : m.name = <<"a", "b">> /\ m.lastActive = 0}

\* the subjects have written a comment each
Commented == {t \in Tallies(Subjects) : \A p \in Subjects : t[p] = 1}

NextScope ==
    \/ CallGetProfileSummary("t1", Neighbours)
    \/ CallGetProfile("t1", Subjects)
    \/ CallGetUnreadHuddleCount("t1", Subjects)
    \/ CallUpdateLastActive("t1", Subjects)
    \/ CallUpdateUnreadHuddleCount("t1", Subjects)
    \/ CallIncrementProfileCommentCount("t1", Subjects)
    \/ CallDecrementProfileCommentCount("t1", Subjects)
    \/ CallProfileUpdate("t1", Subjects, Recounts)
    \/ CallUpdateCommentCountForAllProfiles("t1", {1}, Commented)
    \/ ThreadStep("t1")
    \/ ThreadReturn("t1")

SpecScope == Init /\ [][NextScope]_vars

\* the scope a mutation purges with PurgeCacheByScope
ScopeOf(op) ==
    IF op = "UpdateUnreadHuddleCount" THEN "CacheCounts" ELSE "CacheDetail"

\* the step of thread t that issues its PurgeCacheByScope
ScopedPurge(t) ==
    /\ th[t].op \in {"UpdateLastActive", "UpdateUnreadHuddleCount"}
                     \cup Counters
    /\ th[t].pc = "purge"
    /\ th'[t].pc # "purge"

\* C13: PurgeCacheByScope(scope, kind, id) removes only the entry of that
\* scope of (kind, id); the entries of the other scopes of (kind, id) and
\* every entry of another id are unchanged: UpdateLastActive evicts the
\* profile's Detail entry (updateUnreadHuddleCount its Counts entry) and
\* leaves the others in place.
C13_OnlyThatScope ==
    [][\A t \in Threads :
          ScopedPurge(t) =>
              \A k \in AllKeys :
                  cache'[k] =
                      IF k = mcKey(ItemTypeProfile, ScopeOf(th[t].op),
                                   th[t].id)
                      THEN NoEntry ELSE cache[k]]_vars

\* UpdateLastActive returned having removed a live Detail entry, with the
\* profile's Summary and Counts entries and another profile's Summary entry
\* still stored
C13_Witness ==
    LET f == th["t1"]
    IN  /\ f.op = "UpdateLastActive" /\ f.pc = "ret"
        /\ f.status = StatusOK
        /\ hist[mcKey(ItemTypeProfile, "CacheDetail", f.id)].op = "purge"
        /\ hist[mcKey(ItemTypeProfile, "CacheDetail", f.id)].exp > 0
        /\ cache[mcKey(ItemTypeProfile, "CacheDetail", f.id)] = NoEntry
        /\ cache[mcKey(ItemTypeProfile, "CacheSummary", f.id)] # NoEntry
        /\ cache[mcKey(ItemTypeProfile, "CacheCounts", f.id)] # NoEntry
        /\ \E p \in ProfIds \ {f.id} :
              cache[mcKey(ItemTypeProfile, "CacheSummary", p)] # NoEntry

----------------------------------------------------------------------------
(* Expiry: a stale entry against the passage of time *)

\* the deadline d seen after TickSecs more seconds, the clock left where it
\* is: only the time left until a deadline matters to the cache
Aged(d) == IF d - TickSecs > now THEN d - TickSecs ELSE now

\* time passes, without bound
Elapse ==
    /\ cache' = [k \in DOMAIN cache |->
                    IF cache[k].typ = "none" THEN cache[k]
                    ELSE [cache[k] EXCEPT !.exp = Aged(@)]]
    /\ hist' = [k \in DOMAIN hist |->
                    IF hist[k].op = "none" THEN hist[k]
                    ELSE [hist[k] EXCEPT !.exp = Aged(@)]]
    /\ UNCHANGED <<now, cacheUp, profiles, events, th, call, units>>

\* one step of the operation of thread t, the store answering as told
ThreadStepOn(t, outcomes) ==
    /\ Running(th[t])
    /\ \E outcome \in Outcomes(th[t]) \cap outcomes :
         LET r == Step(th[t], cache, now, cacheUp, Db, outcome)
         IN  /\ Len(r.db.events) <= MaxEvents
             /\ th' = [th EXCEPT ![t] = r.f]
             /\ CacheIO(r.ops)
             /\ profiles' = r.db.profiles
             /\ events' = r.db.events
    /\ UNCHANGED <<now, cacheUp, call, units>>

\* a request of profile id's own site for its summary arrives
ReadOwn(t, id) ==
    Start(t, Frame("GetProfileSummary", profiles[id].site, id, 0, Nil))

\* the store answers the query of such a request
QueryOk(t, id) ==
    /\ th[t].op = "GetProfileSummary" /\ th[t].pc = "query"
    /\ th[t].id = id /\ th[t].siteId = profiles[id].site
    /\ ThreadStepOn(t, {"ok"})

NextTtl ==
    \/ CallGetProfileSummary("t1", Subjects)
    \/ CallProfileUpdate("t1", Subjects, Renames)
    \/ ThreadStep("t1")
    \/ ThreadReturn("t1")
    \/ CacheFlip
    \/ Elapse

\* time passes; requests run to their return; readers of the profile keep
\* coming, and the store does not fail their query for ever
FairTtl ==
    /\ WF_vars(Elapse)
    /\ WF_vars(ThreadStep("t1"))
    /\ WF_vars(ThreadReturn("t1"))
    /\ \A id \in Subjects :
          /\ SF_vars(ReadOwn("t1", id))
          /\ SF_vars(QueryOk("t1", id))

SpecTtl == Init /\ [][NextTtl]_vars /\ FairTtl

\* the summary the store holds of profile id
StoredSummary(id) == ProfileSummaryType(id, profiles[id])

\* the Summary entry of profile id is live and is not what the store holds
Stale(id) ==
    LET e == cache[mcKey(ItemTypeProfile, "CacheSummary", id)]
    IN  /\ e.typ = "ProfileSummaryType"
        /\ now < e.exp
        /\ e.val # StoredSummary(id)

\* a mutation is under way
Writing == \E t \in Threads : th[t].op \in Mutations /\ Running(th[t])

\* a reader has been handed what the store holds
ReadCurrent(id) ==
    \E t \in Threads :
        /\ th[t].op = "GetProfileSummary" /\ th[t].pc = "ret"
        /\ th[t].id = id
        /\ th[t].err = Nil
        /\ th[t].m = StoredSummary(id)

\* an entry whose deadline has passed is a miss for every type
Expired(k) ==
    (hist[k].op = "set" /\ now >= hist[k].exp)
        => \A typ \in Types : ~CacheGet(cache, now, cacheUp, k, typ).ok

\* C14: an entry that is never purged stops being returned once the TTL
\* since its write has elapsed; so from a state in which the cache holds a
\* stale Summary entry (the purge of the mutation was missed), unless a
\* further write to the profile begins, a reader of the profile eventually
\* gets the store's current value.
C14_ReconciledByTtl ==
    /\ [](\A k \in AllKeys : Expired(k))
    /\ \A id \in Subjects : Stale(id) ~> (ReadCurrent(id) \/ Writing)

\* a stale entry left behind by a purge that did not reach the cache, the
\* mutation over and the cache reachable again
C14_Witness ==
    /\ \E id \in Subjects : Stale(id)
    /\ cacheUp
    /\ \A t \in Threads : th[t].pc = "idle"

\* the stale entry has run out of time and a reader got the stored value
C14_WitnessExpired ==
    \E id \in Subjects :
        LET k == mcKey(ItemTypeProfile, "CacheSummary", id)
        IN  /\ hist[k].op = "set" /\ now >= hist[k].exp
            /\ hist[k].val.val # StoredSummary(id)
            /\ cacheUp
            /\ ReadCurrent(id)

----------------------------------------------------------------------------
(* Which failed unit's error a page reports *)

\* the failed response whose unit has the smallest input position
FirstFailedBySeq ==
    CHOOSE r \in {call.resps[i] : i \in 1..Len(call.resps)} :
        /\ r.Err # Nil
        /\ \A i \in 1..Len(call.resps) :
              call.resps[i].Err # Nil => r.Seq <= call.resps[i].Seq

\* C15: when units of a page fail, the status and error returned by
\* GetProfiles and GetIgnored are those of the failed unit with the smallest
\* input position, whatever the order in which the units completed.
C15_ErrorOfSmallestSeq ==
    (Gathered /\ UnitFailed) =>
        /\ call.ret.status = FirstFailedBySeq.Status
        /\ call.ret.err = FirstFailedBySeq.Err

----------------------------------------------------------------------------
(* The fetchers on a store that does not change: hit against miss *)

NextHit ==
    \/ CallGetProfileSummary("t1", Subjects)
    \/ CallGetProfile("t1", Subjects)
    \/ CallGetEvent("t1", {0, 1})
    \/ CallGetEventSummary("t1", {0})
    \/ ThreadStep("t1")
    \/ ThreadReturn("t1")
    \/ CacheFlip

SpecHit == InitEvents /\ [][NextHit]_vars

RECURSIVE FromStore(_)
\* the call of frame f run to its return with the cache unavailable and the
\* store answering: what the data store alone gives
FromStore(f) ==
    IF f.pc = "ret" THEN f
    ELSE FromStore(Step(f, cache, now, FALSE, Db, "ok").f)

\* the store did not answer
StoreErrs == {ConnErr, QueryErr, "Database query failed",
              "Error fetching last comment"}

Readers == {"GetEvent", "GetEventSummary", "GetProfile", "GetProfileSummary"}

\* C16: for a given store state, site and entity id, GetEvent,
\* GetEventSummary, GetProfile and GetProfileSummary return the same record,
\* status code and error whether the record comes from the cache or from
\* the data store.
C16_HitAsMiss ==
    \A t \in Threads :
        (th[t].pc = "ret" /\ th[t].op \in Readers
            /\ th[t].err \notin StoreErrs) =>
                LET g == FromStore(Frame(th[t].op, th[t].siteId, th[t].id,
                                         th[t].profileId, Nil))
                IN  /\ th[t].m = g.m
                    /\ th[t].status = g.status
                    /\ th[t].err = g.err

----------------------------------------------------------------------------
(* Reads after a mutation, one request at a time *)

NextFresh ==
    \/ CallGetProfileSummary("t1", Subjects)
    \/ CallGetProfile("t1", Subjects)
    \/ CallGetEvent("t1", {0})
    \/ CallGetEventSummary("t1", {0})
    \/ CallProfileUpdate("t1", Subjects, Renames)
    \/ CallEventUpdate("t1", {1}, {0, 1})
    \/ CallEventPatch("t1", PatchesOf({"/meta/flags/sticky",
                                       "/meta/flags/moderated"}))
    \/ CallEventDelete("t1")
    \/ ThreadStep("t1")
    \/ ThreadReturn("t1")

SpecFresh == InitEvent /\ [][NextFresh]_vars

\* the mutations whose purge covers every scope of the entity
Writers == {"EventUpdate", "EventPatch", "EventDelete", "ProfileUpdate"}

KindOf(op) == IF op = "ProfileUpdate" THEN ItemTypeProfile ELSE ItemTypeEvent

\* the mutation of thread t has returned success
Mutated(t) ==
    /\ th[t].op \in Writers /\ th[t].pc = "ret"
    /\ th[t].status = StatusOK /\ th[t].err = Nil

\* C17: after EventType.Update, Patch or Delete, or ProfileType.Update, has
\* returned success, no other operation running, the cache holds no entry
\* of that id, so the next GetEvent / GetEventSummary (GetProfile /
\* GetProfileSummary) for it is not answered from an entry written before
\* the mutation; and every record a fetcher returns is the one the
\* committed store state gives.
C17_FreshAfterMutation ==
    \A t \in Threads :
        /\ Mutated(t) =>
              \A s \in Scopes :
                  ~CacheGet(cache, now, cacheUp,
                            mcKey(KindOf(th[t].op), s, th[t].id),
                            cache[mcKey(KindOf(th[t].op), s, th[t].id)].typ).ok
        /\ (th[t].pc = "ret" /\ th[t].op \in Readers /\ th[t].err = Nil) =>
              th[t].m = FromStore(Frame(th[t].op, th[t].siteId, th[t].id,
                                        th[t].profileId, Nil)).m

\* an event mutation returned success having removed a live Detail entry
C17_Witness ==
    \E t \in Threads :
        /\ Mutated(t) /\ th[t].op = "EventUpdate"
        /\ hist[mcKey(ItemTypeEvent, "CacheDetail", th[t].id)].op = "purge"
        /\ hist[mcKey(ItemTypeEvent, "CacheDetail", th[t].id)].exp > 0

\* a profile update returned success having removed a live Summary entry
C17_WitnessProfile ==
    \E t \in Threads :
        /\ Mutated(t) /\ th[t].op = "ProfileUpdate"
        /\ hist[mcKey(ItemTypeProfile, "CacheSummary", th[t].id)].op = "purge"
        /\ hist[mcKey(ItemTypeProfile, "CacheSummary", th[t].id)].exp > 0

\* a fetcher returned the record of an event a patch has made sticky
C17_WitnessRead ==
    \E t \in Threads :
        /\ th[t].pc = "ret" /\ th[t].op = "GetEvent" /\ th[t].err = Nil
        /\ th[t].m.sticky

----------------------------------------------------------------------------
(* A read-through racing a mutation *)

NextRace ==
    \/ CallGetProfileSummary("t1", Subjects \cup {NewProfileId})
    \/ CallProfileUpdate("t2", Subjects, Renames)
    \/ CallProfileInsert("t2", 1, Newcomers)
    \/ ThreadStep("t1")
    \/ ThreadStep("t2")
    \/ ThreadStep("go")
    \/ ThreadReturn("t1")
    \/ ThreadReturn("t2")

SpecRace == Init /\ [][NextRace]_vars

\* thread t writes the summary it loaded to the cache
SetStep(t) ==
    /\ th[t].op = "GetProfileSummary" /\ th[t].pc = "set"
    /\ th'[t].pc = "ret"

\* thread t issues the purge of its committed update: ProfileType.Update,
\* the m.Update() that ends insert, or the goroutine insert leaves behind
PurgeStep(t) ==
    \/ /\ th[t].op = "ProfileUpdate" /\ th[t].pc = "purge"
       /\ th'[t].pc = "ret"
    \/ /\ th[t].op = "ProfileInsert" /\ th[t].pc = "update"
       /\ th'[t].pc = "ret" /\ th'[t].err = Nil
    \/ /\ th[t].op = "PurgeCache" /\ th'[t].pc = "idle"

\* the profile the purge of thread t is for
PurgedId(t) == IF th[t].op = "ProfileInsert" THEN th[t].m.id ELSE th[t].id

\* C18: the read-through and the mutation are not ordered against each
\* other: the purge of a committed update removes the entries of the
\* profile, and the cache write of a read-through stores the record it
\* loaded as a live entry whatever the store holds by then; so when the
\* load precedes the commit and the write follows the purge, the cache
\* holds the pre-mutation record although the purge completed.
C18_WriteAfterPurge ==
    [][\A t \in Threads \cup Goroutines :
          /\ PurgeStep(t) =>
                \A s \in Scopes :
                    cache'[mcKey(ItemTypeProfile, s, PurgedId(t))] = NoEntry
          /\ SetStep(t) =>
                LET got == CacheGet(cache', now', cacheUp',
                                    mcKey(ItemTypeProfile, "CacheSummary",
                                          th[t].id),
                                    "ProfileSummaryType")
                IN  got.ok /\ got.val = th[t].m]_vars

\* the update has committed and purged, the reader has returned, and the
\* cache holds as a live entry the summary the store held before the update
C18_Witness ==
    \E id \in Subjects :
        /\ Mutated("t2") /\ th["t2"].id = id
        /\ th["t1"].op = "GetProfileSummary" /\ th["t1"].pc = "ret"
        /\ th["t1"].id = id /\ th["t1"].err = Nil
        /\ Stale(id)
        /\ cache[mcKey(ItemTypeProfile, "CacheSummary", id)].val
              = ProfileSummaryType(id, InitProfiles[id])
        /\ profiles[id] # InitProfiles[id]

----------------------------------------------------------------------------
(* Get-or-compute *)

\* the key and the type under which a fetcher keeps its record
KeyOf(f) ==
    IF f.op = "GetProfileSummary"
    THEN mcKey(ItemTypeProfile, "CacheSummary", f.id)
    ELSE IF f.op = "GetProfile"
    THEN mcKey(ItemTypeProfile, "CacheDetail", f.id)
    ELSE IF f.op = "GetEvent"
    THEN mcKey(ItemTypeEvent, "CacheDetail", f.id)
    ELSE mcKey(ItemTypeEvent, "CacheSummary", f.id)

TypOf(f) ==
    IF f.op = "GetProfileSummary" THEN "ProfileSummaryType"
    ELSE IF f.op = "GetProfile" THEN "ProfileType"
    ELSE IF f.op = "GetEvent" THEN "EventType"
    ELSE "EventSummaryType"

\* what the cache answers to the lookup of frame f
Lookup(f, ca, up) == CacheGet(ca, now, up, KeyOf(f), TypOf(f))

\* thread t takes a step of a fetcher call
Fetching(t) == th[t].op \in Readers /\ th'[t] # th[t] /\ Running(th[t])

\* C19: on a cache hit the fetcher (GetProfileSummary, GetProfile, GetEvent,
\* GetEventSummary) goes on with the cached record and never reaches the
\* query of the entity; on a miss with a successful load the loaded record
\* is written under the (kind, scope, id) key of the fetcher with the fixed
\* TTL, so that a lookup that follows at once, for the same id, is a hit
\* on that record.
C19_GetOrCompute ==
    [][\A t \in Threads :
          Fetching(t) =>
              /\ (th[t].pc = "start" /\ th[t].id # 0
                    /\ Lookup(th[t], cache, cacheUp).ok)
                    => /\ th'[t].pc \in {"ret", "hitfetch"}
                       /\ th'[t].err = Nil
                             => th'[t].m = Lookup(th[t], cache, cacheUp).val
              /\ th[t].pc \in HitPcs => th'[t].pc \in HitPcs \cup {"ret"}
              /\ (th[t].pc = "set" /\ cacheUp)
                    => /\ cache'[KeyOf(th[t])] =
                             [typ |-> TypOf(th[t]), val |-> th[t].m,
                              exp |-> now + mcTtl]
                       /\ Lookup(th[t], cache', cacheUp').ok
                       /\ Lookup(th[t], cache', cacheUp').val = th[t].m]_vars

\* a call that hit the entry an earlier call of the same fetcher wrote
C19_Witness ==
    \E t \in Threads :
        /\ th[t].op = "GetEventSummary" /\ th[t].pc = "hitfetch"
        /\ hist[KeyOf(th[t])].op = "set"
        /\ th[t].m = hist[KeyOf(th[t])].val.val

\* the same for a profile summary: returned from the cache
C19_WitnessProfile ==
    \E t \in Threads :
        /\ th[t].op = "GetProfileSummary" /\ th[t].pc = "ret"
        /\ th[t].err = Nil
        /\ Lookup(th[t], cache, cacheUp).ok
        /\ th[t].m = Lookup(th[t], cache, cacheUp).val

----------------------------------------------------------------------------
(* Absent records *)

\* the store holds no record the query of the fetcher of frame f can see
NoVisibleRecord(f) ==
    IF f.op \in {"GetProfile", "GetProfileSummary"}
    THEN ~ProfileRowVisible(Db, f.siteId, f.id)
    ELSE IF f.op = "GetEvent" THEN ~EventRowVisible(Db, f.siteId, f.id)
    ELSE ~EventSummaryRowVisible(Db, f.id)

\* C20: when the data store has no visible record for the requested id,
\* GetProfile, GetProfileSummary, GetEvent and GetEventSummary return
\* status 404 with a non-nil error and a zero-value record.
C20_NotFound ==
    \A t \in Threads :
        (th[t].pc = "ret" /\ th[t].op \in Readers
            /\ th[t].err \notin StoreErrs /\ NoVisibleRecord(th[t])) =>
                /\ th[t].status = StatusNotFound
                /\ th[t].err # Nil
                /\ th[t].m = NoRecord

----------------------------------------------------------------------------
(* No negative caching *)

\* the lookup of the fetcher of thread t ends the call: no row, or the
\* store failed
LookupFailed(t) ==
    /\ th[t].op \in Readers /\ th[t].pc = "query"
    /\ th'[t].pc = "ret"

\* C21: when the store lookup of a fetcher finds no record or fails, the
\* fetcher returns an error and writes nothing to the cache: the entry of
\* its (kind, scope, id) key is absent afterwards, and a call for the same
\* id made next goes to the store again.
C21_NoNegativeCaching ==
    [][\A t \in Threads :
          LookupFailed(t) =>
              /\ th'[t].err # Nil
              /\ cache' = cache
              /\ ~Lookup(th[t], cache', cacheUp').ok
              /\ Step(Frame(th[t].op, th[t].siteId, th[t].id,
                            th[t].profileId, Nil),
                      cache', now', cacheUp',
                      [profiles |-> profiles', events |-> events'],
                      "ok").f.pc = "query"]_vars

\* GetProfile has returned 404 for an id of which the store holds no
\* visible record, and the cache has no entry under its key
C21_Witness ==
    \E t \in Threads :
        /\ th[t].op = "GetProfile" /\ th[t].pc = "ret"
        /\ th[t].status = StatusNotFound
        /\ NoVisibleRecord(th[t])
        /\ cache[KeyOf(th[t])] = NoEntry

\* the same for an event that has been deleted
C21_WitnessDeleted ==
    \E t \in Threads :
        /\ th[t].op = "GetEvent" /\ th[t].pc = "ret"
        /\ th[t].status = StatusNotFound
        /\ th[t].id \in DOMAIN events /\ events[th[t].id].deleted
        /\ cache[KeyOf(th[t])] = NoEntry

----------------------------------------------------------------------------
(* A dedup hit of EventType.Insert *)

\* Inserts of one author's events of one title, one after the other, with
\* time passing between them
NextToken ==
    \/ CallEventInsert("t1", Drafts)
    \/ ThreadStep("t1")
    \/ ThreadReturn("t1")
    \/ TickIdle

SpecToken == Init /\ [][NextToken]_vars

\* the Insert of thread t finds the token of its fingerprint
DedupHit(t) ==
    /\ th[t].op = "EventInsert" /\ th[t].pc = "start"
    /\ Validate(th[t].arg, th[t].siteId, FALSE).err = Nil
    /\ Known(th[t].arg, th[t].siteId)
    /\ th'[t].pc = "ret" /\ th'[t].err = Nil

\* the keys of the dedup tokens
DupeKeys ==
    {DupeKey(Validate(m, MicrocosmSite(m.microcosmId), FALSE).m) :
        m \in InsertPayloads}

\* C22: when EventType.Insert finds a dedup token for its fingerprint it
\* sets the event ID to the stored ID and returns 200 without opening a
\* transaction, inserting a row, purging a cache entry or rewriting the
\* token; so a hit does not extend the token, which lapses 5 minutes after
\* the creation that wrote it.
C22_HitLeavesToken ==
    /\ [][\A t \in Threads :
             DedupHit(t) =>
                 /\ th'[t].m.id =
                       cache[DupeKey(Validate(th[t].arg, th[t].siteId,
                                              FALSE).m)].val
                 /\ th'[t].status = StatusOK
                 /\ th'[t].tx = NoTx
                 /\ events' = events
                 /\ cache' = cache
                 /\ hist' = hist]_vars
    /\ [](\A k \in DupeKeys :
             cache[k].typ = "int64" =>
                 /\ cache[k].val \in DOMAIN events
                 /\ cache[k].exp = events[cache[k].val].created + DupeTtl)

\* an Insert answered from the token some time after the creation, the
\* token's deadline still five minutes after the creation
C22_Witness ==
    \E t \in Threads :
        /\ th[t].op = "EventInsert" /\ th[t].pc = "ret"
        /\ th[t].err = Nil /\ th[t].tx = NoTx
        /\ th[t].m.id \in DOMAIN events
        /\ now > events[th[t].m.id].created
        /\ cache[DupeKey(th[t].m)].exp
              = events[th[t].m.id].created + DupeTtl

----------------------------------------------------------------------------
(* The dedup token is written after the commit *)

\* a step of thread t's Insert ends the call with an error
InsertFailed(t) ==
    /\ th[t].op = "EventInsert" /\ Running(th[t])
    /\ th'[t].pc = "ret" /\ th'[t].err # Nil

\* a step changes the entry of a dedup token
TokenWritten == \E k \in DupeKeys : cache'[k] # cache[k] \/ hist'[k] # hist[k]

\* the first step of a new Insert of payload m, after the step
Retry(m, siteId) ==
    Step(Frame("EventInsert", siteId, 0, m.createdById, m),
         cache', now', cacheUp',
         [profiles |-> profiles', events |-> events'], "ok").f

\* C23: EventType.Insert stores the dedup token only after the transaction
\* has committed; if validation, the INSERT, the microcosm item-count
\* increment or the commit fails, no token is written and a retry attempts
\* the creation again.
C23_TokenAfterCommit ==
    [][/\ TokenWritten =>
             \E t \in Threads :
                 /\ th[t].op = "EventInsert" /\ th[t].pc = "token"
                 /\ th[t].tx.state = "committed"
                 /\ events[th[t].m.id].committed
                 /\ cache'[DupeKey(th[t].m)].val = th[t].m.id
       /\ \A t \in Threads :
             InsertFailed(t) =>
                 /\ cache' = cache /\ hist' = hist
                 /\ th'[t].tx.state # "committed"
                 /\ ~Known(th[t].arg, th[t].siteId) =>
                       Retry(th[t].arg, th[t].siteId).pc
                           \in {"insert", "ret"}
                 /\ (~Known(th[t].arg, th[t].siteId)
                        /\ Validate(th[t].arg, th[t].siteId, FALSE).err = Nil)
                       => Retry(th[t].arg, th[t].siteId).pc = "insert"]_vars

\* an Insert whose commit failed has returned: its row is not committed and
\* its fingerprint has no token
C23_Witness ==
    \E t \in Threads :
        /\ th[t].op = "EventInsert" /\ th[t].pc = "ret"
        /\ th[t].err = "Transaction failed"
        /\ th[t].m.id \in DOMAIN events
        /\ ~events[th[t].m.id].committed
        /\ cache[DupeKey(th[t].m)] = NoEntry

\* an Insert whose item-count increment failed has returned without a token
C23_WitnessCount ==
    \E t \in Threads :
        /\ th[t].op = "EventInsert" /\ th[t].pc = "ret"
        /\ th[t].err = CountErr
        /\ th[t].tx.state = "rolledback"
        /\ ~Known(th[t].arg, th[t].siteId)

\* an Insert that failed its validation has returned without a token
C23_WitnessInvalid ==
    \E t \in Threads :
        /\ th[t].op = "EventInsert" /\ th[t].pc = "ret"
        /\ th[t].err # Nil
        /\ th[t].tx = NoTx
        /\ \A k \in DupeKeys : cache[k] = NoEntry

----------------------------------------------------------------------------
(* The fingerprint and the fields of the payload *)

\* durations a request may carry, in minutes: none given, negative, half an
\* hour
DurationArgs == {0 - 1, 0, 30}

\* payloads that differ in nothing but the duration
Durations == {[m EXCEPT !.duration = d] : m \in Draft, d \in DurationArgs}

NextDuration ==
    \/ CallEventInsert("t1", Durations)
    \/ ThreadStep("t1")
    \/ ThreadReturn("t1")
    \/ TickIdle

SpecDuration == Init /\ [][NextDuration]_vars

\* the fields of an event that the request supplies
SameUserFields(m, row) ==
    /\ m.microcosmId = row.microcosmId
    /\ m.title = row.title
    /\ m.when = row.when
    /\ m.duration = row.duration
    /\ m.status = row.status
    /\ m.rsvpLimit = row.rsvpLimit
    /\ m.createdById = row.createdById

\* the Insert of thread t was answered from a dedup token
Suppressed(t) ==
    /\ th[t].op = "EventInsert" /\ th[t].pc = "ret"
    /\ th[t].err = Nil /\ th[t].tx = NoTx

\* C24: the dedup fingerprint of EventType.Insert covers every field the
\* request supplies: payloads that differ in such a field (for example only
\* in Duration) have different fingerprints and the second is not suppressed
\* as a duplicate, so an Insert answered from a token is answered with an
\* event that has the payload's fields; payloads that differ only in
\* generated fields have the same fingerprint.
C24_FingerprintCoversFields ==
    \A t \in Threads :
        Suppressed(t) =>
            /\ SameUserFields(th[t].m, events[th[t].m.id])
            /\ RowKey(th[t].m) = RowKey(events[th[t].m.id])

----------------------------------------------------------------------------
(* The default duration *)

\* the Insert of thread t has validated its payload
PayloadValid(t) ==
    /\ th[t].op = "EventInsert"
    /\ \/ th[t].pc \in {"insert", "commit", "token", "purge", "microcosm"}
       \/ th[t].pc = "ret" /\ th[t].err = Nil

\* C27: EventType.Validate defaults the duration to one hour when no
\* duration is specified: after a successful Validate of an event whose
\* Duration was left unset (zero), Duration is 60 minutes.
C27_DefaultDuration ==
    \A t \in Threads :
        (PayloadValid(t) /\ th[t].arg.duration = 0) =>
            th[t].m.duration = 60 * 1

----------------------------------------------------------------------------
(* Termination of the fan-out/gather *)

\* the scheduler runs every goroutine that can take a step: the spawning
\* loop, every unit (each per-ID fetch terminates), every rendezvous of a
\* unit's send with the gather loop's receive, and the return
FairGather ==
    /\ WF_vars(Spawn)
    /\ \A seq \in Seqs : WF_vars(UnitStep(seq))
    /\ \A seq \in Seqs : WF_vars(Recv(seq))
    /\ WF_vars(ListFinish)

\* the new profiles a request asks to create
Arrivals == {n \in Newcomers : ~n.isImport /\ n.m.commentCount = 0}

\* a profile is created on the site of a GetProfiles that has counted and
\* has yet to fetch its page: the first page, of the first profile and the
\* new one
CountedInsert ==
    /\ call.pc = "count"
    /\ call.offset = 0 /\ call.limit = Len(call.rows)
    /\ call.rows = <<1, NewProfileId>>
    /\ CallProfileInsert("t1", 1, Arrivals)

NextGather ==
    \/ ListCallOn({1}, ProfIds \cup {NewProfileId})
    \/ ListCount
    \/ ListPage
    \/ CountedInsert
    \/ ThreadStep("t1")
    \/ ThreadStep("go")
    \/ ThreadReturn("t1")
    \/ Spawn
    \/ \E seq \in Seqs : UnitStep(seq)
    \/ \E seq \in Seqs : Recv(seq)
    \/ ListFinish

\* one list request, from its call to its return
SpecGather == Init /\ [][NextGather]_vars /\ FairGather

\* the request is in its fan-out or in its gather loop
FannedOut == call.pc \in {"spawn", "gather"}

\* the sequence numbers of the responses received
SeqsReceived == {call.resps[i].Seq : i \in 1..Len(call.resps)}

\* C25: if every per-ID fetch terminates, GetProfiles and GetIgnored
\* terminate: the gather loop receives exactly one result per spawned unit,
\* the WaitGroup is back at zero at wg1.Wait(), and the function returns.
C25_GatherTerminates ==
    /\ [][(call.pc = "gather" /\ call'.pc = "returned") =>
             /\ call.wg = 0
             /\ call.spawned = Len(call.ids)
             /\ Len(call.resps) = call.spawned
             /\ SeqsReceived = 0..(call.spawned - 1)]_vars
    /\ [](call.wg = call.spawned - Len(call.resps))
    /\ FannedOut ~> Returned

\* a GetIgnored page of as many units as the limit allows has returned
C25_Witness ==
    /\ Gathered /\ call.op = "GetIgnored"
    /\ call.spawned = MaxLimit /\ call.wg = 0
    /\ Len(call.resps) = MaxLimit

\* the same for GetProfiles, the last unit spawned delivering first
C25_WitnessProfiles ==
    /\ Gathered /\ call.op = "GetProfiles"
    /\ call.spawned = MaxLimit /\ call.wg = 0
    /\ call.resps[1].Seq = MaxLimit - 1

----------------------------------------------------------------------------
(* ConversationController.Patch, CommentController.Patch *)

StatusForbidden == 403

MaxPatches == 2

PatchControllers == {"ConversationPatch", "CommentPatch"}

\* the paths a replace may name; the last one is none of the flags
PatchPaths ==
    {"/meta/flags/sticky", "/meta/flags/open", "/meta/flags/deleted",
     "/meta/flags/moderated", "/meta/flags/other"}

\* a patch after ScanRawValue: patch.Bool.Valid and patch.Bool.Bool
PatchArgs ==
    {[path |-> p, valid |-> v, bool |-> b] :
        p \in PatchPaths, v \in BOOLEAN, b \in BOOLEAN}

\* models.GetPermission(ac)
Permissions ==
    [CanUpdate : BOOLEAN, IsModerator : BOOLEAN, IsOwner : BOOLEAN]

\* the body of the loop over the patches: 0 when the patch is let through,
\* otherwise the status of the error response
PatchAuth(ctl, perms, patch) ==
    IF ~patch.valid THEN StatusBadRequest
    ELSE IF patch.path = "/meta/flags/sticky" /\ ctl = "ConversationPatch"
    THEN IF ~perms.IsModerator THEN StatusForbidden ELSE 0
    ELSE IF patch.path = "/meta/flags/open" /\ ctl = "ConversationPatch"
    THEN IF ~(perms.IsModerator \/ perms.IsOwner) THEN StatusForbidden
         ELSE 0
    ELSE IF patch.path = "/meta/flags/deleted"
    THEN IF (patch.bool = FALSE /\ ~(perms.IsModerator \/ perms.IsOwner))
            \/ ~perms.IsModerator
         THEN StatusForbidden ELSE 0
    ELSE IF patch.path = "/meta/flags/moderated"
    THEN IF ~perms.IsModerator THEN StatusForbidden ELSE 0
    ELSE StatusBadRequest

\* for _, patch := range patches: the status of the first patch refused
RECURSIVE PatchesAuth(_, _, _)
PatchesAuth(ctl, perms, patches) ==
    IF patches = <<>> THEN 0
    ELSE LET s == PatchAuth(ctl, perms, Head(patches))
         IN  IF s # 0 THEN s ELSE PatchesAuth(ctl, perms, Tail(patches))

\* the authorisation block of the handler
Authorise(ctl, perms, patches) ==
    IF ~perms.CanUpdate THEN StatusForbidden
    ELSE PatchesAuth(ctl, perms, patches)

RECURSIVE SeqsUpTo(_, _)
SeqsUpTo(S, n) ==
    IF n = 0 THEN {<<>>}
    ELSE LET shorter == SeqsUpTo(S, n - 1)
         IN  shorter \cup {Append(q, x) : q \in shorter, x \in S}

\* a PATCH request that passed c.Fill and h.TestPatch
InitPatch ==
    /\ now = 0
    /\ cacheUp = TRUE
    /\ cache = [k \in AllKeys |-> NoEntry]
    /\ hist = [k \in AllKeys |-> HistNone]
    /\ profiles = InitProfiles
    /\ events = <<>>
    /\ th = [t \in Threads \cup Goroutines |-> IdleFrame]
    /\ units = [s \in Seqs |-> NoUnit]
    /\ \E ctl \in PatchControllers, perms \in Permissions,
          patches \in SeqsUpTo(PatchArgs, MaxPatches) :
          call = [op |-> ctl, pc |-> "auth", perms |-> perms,
                  patches |-> patches, auth |-> 0, status |-> 0]

\* from GetPermission to `End Authorisation`
PatchAuthorise ==
    /\ call.op \in PatchControllers /\ call.pc = "auth"
    /\ LET s == Authorise(call.op, call.perms, call.patches)
       IN  call' = [call EXCEPT !.auth = s, !.status = s,
                                !.pc = IF s # 0 THEN "responded"
                                       ELSE IF call.op = "ConversationPatch"
                                       THEN "load" ELSE "model"]
    /\ UNCHANGED <<now, cacheUp, cache, hist, profiles, events, th, units>>

\* the statuses a model call hands back with an error
ErrorStatuses ==
    {StatusBadRequest, StatusForbidden, StatusNotFound,
     StatusInternalServerError}

\* the call of the model returns status: an error is the response (0 when
\* there is none)
PatchReturn(status, next) ==
    call' = IF status = 0 THEN [call EXCEPT !.pc = next]
            ELSE [call EXCEPT !.status = status, !.pc = "responded"]

\* models.GetConversation(c.Site.Id, itemId, c.Auth.ProfileId): the
\* conversation, or the status that came with the error
PatchLoad ==
    /\ call.op = "ConversationPatch" /\ call.pc = "load"
    /\ \E status \in {0} \cup ErrorStatuses : PatchReturn(status, "model")
    /\ UNCHANGED <<now, cacheUp, cache, hist, profiles, events, th, units>>

\* m.Patch(ac, patches)
PatchApply ==
    /\ call.op \in PatchControllers /\ call.pc = "model"
    /\ \E status \in {0} \cup ErrorStatuses : PatchReturn(status, "audit")
    /\ UNCHANGED <<now, cacheUp, cache, hist, profiles, events, th, units>>

\* audit.Update(...) and c.RespondWithOK()
PatchAudit ==
    /\ call.op \in PatchControllers /\ call.pc = "audit"
    /\ call' = [call EXCEPT !.status = StatusOK, !.pc = "responded"]
    /\ UNCHANGED <<now, cacheUp, cache, hist, profiles, events, th, units>>

NextPatch == PatchAuthorise \/ PatchLoad \/ PatchApply \/ PatchAudit

SpecPatch == InitPatch /\ [][NextPatch]_vars

\* the request has been through the authorisation block
Authorised == call.op \in PatchControllers /\ call.pc # "auth"

\* what the comment in the code allows: owners and moderators may delete,
\* only moderators may undelete
DeleteAllowed(perms, patch) ==
    IF patch.bool THEN perms.IsModerator \/ perms.IsOwner
    ELSE perms.IsModerator

\* C26: in ConversationController.Patch and CommentController.Patch a
\* replace of /meta/flags/deleted is authorised as the comment in the code
\* states: the value true (delete) is permitted for the owner of the item or
\* a moderator, the value false (undelete) only for a moderator; other
\* callers get 403.
C26_DeleteAuthorised ==
    (/\ Authorised
     /\ call.perms.CanUpdate
     /\ call.patches # <<>>
     /\ call.patches[1].path = "/meta/flags/deleted"
     /\ call.patches[1].valid) =>
        /\ ~DeleteAllowed(call.perms, call.patches[1])
              => call.auth = StatusForbidden
        /\ (DeleteAllowed(call.perms, call.patches[1])
               /\ Len(call.patches) = 1) => call.auth = 0

----------------------------------------------------------------------------
(* Two Inserts of the same event at the same time *)

\* two requests create the same event, their steps in any order
NextTwin ==
    \/ \E t \in Threads : CallEventInsert(t, Draft)
    \/ \E t \in Threads : ThreadStep(t)
    \/ \E t \in Threads : ThreadReturn(t)
    \/ TickIdle

SpecTwin == Init /\ [][NextTwin]_vars

\* the Insert of thread t has returned the ID of an event
Created(t) ==
    th[t].op = "EventInsert" /\ th[t].pc = "ret" /\ th[t].err = Nil

\* C28: when two Inserts with the same fingerprint run at the same time and
\* the second checks the token before the first has stored it, there is
\* still at most one event row for the fingerprint and both calls return
\* the same ID.
C28_ConcurrentDedup ==
    /\ \A k \in DupeKeys : Cardinality(Fresh(k)) <= 1
    /\ \A t \in Threads, u \in Threads :
          (/\ Created(t) /\ Created(u)
           /\ DupeKey(th[t].m) = DupeKey(th[u].m)
           /\ now - events[th[t].m.id].created < DupeTtl
           /\ now - events[th[u].m.id].created < DupeTtl)
              => th[t].m.id = th[u].m.id

----------------------------------------------------------------------------
(* The cache after a failed mutation *)

\* the cache as it is between two requests, noted for comparison
Noted == call.op = "noted" /\ call.ret = cache

Note ==
    /\ \A t \in Threads : th[t].pc = "idle"
    /\ ~Noted
    /\ call' = [IdleCall EXCEPT !.op = "noted", !.ret = cache]
    /\ UNCHANGED <<now, cacheUp, cache, hist, profiles, events, th, units>>

\* a request starts from a noted cache
NotedProfileUpdate == Noted /\ CallProfileUpdate("t1", Subjects, Renames)

NotedUpdateLastActive == Noted /\ CallUpdateLastActive("t1", Subjects)

NotedUpdateUnreadHuddleCount ==
    Noted /\ CallUpdateUnreadHuddleCount("t1", Subjects)

\* the stored event is changed before another one is created
OneEvent == Len(events) = Cardinality(Subjects)

NotedEventInsert == Noted /\ CallEventInsert("t1", Draft)

NotedEventUpdate ==
    Noted /\ OneEvent /\ CallEventUpdate("t1", {1}, {1})

\* the patch that makes an event sticky
Sticky == {p \in PatchesOf({"/meta/flags/sticky"}) : Len(p) = 1}

NotedEventPatch == Noted /\ OneEvent /\ CallEventPatch("t1", Sticky)

NotedEventDelete == Noted /\ OneEvent /\ CallEventDelete("t1")

NotedGetUnreadHuddleCount ==
    Noted /\ CallGetUnreadHuddleCount("t1", Subjects)

NotedGetEvent == Noted /\ CallGetEvent("t1", {0})

\* fetchers fill the cache, mutations succeed or fail
NextFail ==
    \/ NotedGetUnreadHuddleCount
    \/ NotedGetEvent
    \/ Note
    \/ NotedProfileUpdate
    \/ NotedUpdateLastActive
    \/ NotedUpdateUnreadHuddleCount
    \/ NotedEventInsert
    \/ NotedEventUpdate
    \/ NotedEventPatch
    \/ NotedEventDelete
    \/ ThreadStep("t1")
    \/ ThreadReturn("t1")

SpecFail == InitEvent /\ [][NextFail]_vars

\* the mutation of frame f has returned without having committed;
\* UpdateUnreadHuddleCount returns nothing, its failure is only logged
MutationFailed(f) ==
    /\ f.op \in Mutations /\ f.pc = "ret"
    /\ IF f.op = "UpdateUnreadHuddleCount" THEN f.tx.state # "committed"
       ELSE f.err # Nil

\* C29: a mutation that fails (validation error, statement error or commit
\* error) changes nothing in the cache: the cache after the failed call is
\* the cache before it; for EventType.Insert, Update, Patch and Delete,
\* ProfileType.Update, UpdateLastActive and UpdateUnreadHuddleCount.
C29_FailureLeavesCache ==
    \A t \in Threads : MutationFailed(th[t]) => cache = call.ret

\* the six mutations that return their error
C29_ErrorReturned ==
    \A t \in Threads :
        (MutationFailed(th[t]) /\ th[t].op # "UpdateUnreadHuddleCount")
            => cache = call.ret

----------------------------------------------------------------------------
(* The result channel and its close *)

\* list requests of one site, one after the other
NextClose ==
    \/ ListCallOn({1}, ProfIds)
    \/ ListCount
    \/ ListPage
    \/ Spawn
    \/ \E seq \in Seqs : UnitStep(seq)
    \/ \E seq \in Seqs : Recv(seq)
    \/ ListFinish
    \/ ListDone

SpecClose == Init /\ [][NextClose]_vars

\* the unit goroutine seq exists and has not completed its send
Unsent(seq) == units[seq].pc \in {"start", "query", "set", "ret"}

\* the send of unit seq completes
Sent(seq) == units[seq].pc = "ret" /\ units'[seq].pc = "done"

\* C30: in GetProfiles and GetIgnored no unit goroutine sends on the result
\* channel after the deferred close of that channel has run, and no unit
\* goroutine is left blocked on its send when the function returns, on
\* every return path taken after the fan-out has started and for every
\* interleaving of the units.
C30_NoSendAfterClose ==
    /\ [](call.closed => \A seq \in Seqs : ~Unsent(seq))
    /\ [][\A seq \in Seqs :
             Sent(seq) =>
                 /\ ~call.closed /\ ~call'.closed
                 /\ call.pc = "gather"
                 /\ call'.resps = Append(call.resps,
                                         Response(units[seq], seq))]_vars

\* the return from the error scan: a unit failed, every unit of a full page
\* has completed its send and the channel is closed
C30_Witness ==
    /\ Gathered /\ UnitFailed
    /\ Len(call.ids) = MaxLimit
    /\ \A i \in 1..Len(call.ids) : units[i - 1].pc = "done"

\* the return from the offset check of GetProfiles, after a unit has run
C30_WitnessOffset ==
    /\ Gathered /\ call.op = "GetProfiles"
    /\ call.ret.status = StatusBadRequest
    /\ call.ids # <<>>
    /\ \A i \in 1..Len(call.ids) : units[i - 1].pc = "done"

\* the final return of GetIgnored
C30_WitnessIgnored ==
    /\ Gathered /\ call.op = "GetIgnored"
    /\ call.ret.status = StatusOK
    /\ Len(call.ids) = MaxLimit
    /\ \A i \in 1..Len(call.ids) : units[i - 1].pc = "done"

====
